---- MODULE Spec2Model ----
(***************************************************************************)
(* IFC-OpenWorld: the asynchronous IFC processing pipeline.                *)
(*                                                                         *)
(* Spec          the Celery worker of ifc-processor                        *)
(*               (ifc-processor/app/workers/ifc_processing.py) with its    *)
(*               services (s3_service, ifc_parser, gltf_converter,         *)
(*               database), one job (file_id, s3_key) delivered up to      *)
(*               MaxDeliveries times, each delivery retried by Celery.     *)
(* SpecProcessor the Celery task of the processor service                  *)
(*               (processor/app/tasks/process_ifc.py), queued by           *)
(*               POST /process (processor/app/main.py).                    *)
(* SpecDatabase  update_processing_result and mark_processing_failed of    *)
(*               ifc-processor/app/services/database.py, statement by      *)
(*               statement, called directly.                               *)
(* SpecQueue     the job's message in the queue under the acknowledgement  *)
(*               settings of ifc-processor/celeryconfig.py.                *)
(* SpecParser    the functions of both ifc_parser modules, called directly *)
(*               on sample files.                                          *)
(*                                                                         *)
(* Angles and coordinates are integers in units of 1/3,600,000 degree      *)
(* (one thousandth of an arc second), so that the sexagesimal conversion   *)
(* of the code is exact.                                                   *)
(***************************************************************************)
EXTENDS Integers, Sequences, FiniteSets, TLC

\* ------------------------------------------------------------------ bounds

\* Deliveries of the one job: the first enqueue plus re-submissions.
MaxDeliveries == 2

Deliveries == 1..MaxDeliveries

\* ------------------------------------------------------ program constants

\* @app.task(max_retries=3)
MaxRetries == 3
\* @app.task(default_retry_delay=60)
DefaultRetryDelay == 60
\* self.retry(exc=e, countdown=60)
RetryCountdown == 60
\* one degree in model units
UnitsPerDegree == 3600000

None == "None"

\* --------------------------------------------------------- IFC file model

\* A GeoAngle attribute as IfcOpenShell hands it over: None, a number, a
\* sequence of numbers, a sequence with a non-numeric element, or a string.
Scalar(x) == [kind |-> "scalar", v |-> <<x>>]
Dms(t) == [kind |-> "seq", v |-> t]
BadSeq == [kind |-> "seq_nonnumeric", v |-> <<>>]
NoAngle == [kind |-> "none", v |-> <<>>]
StrAngle == [kind |-> "str", v |-> <<>>]

\* The name attributes of the first IfcBuilding, IfcSite and IfcProject; an
\* attribute that is None, or whose entity the file lacks, is None.
NameAttributes ==
    {"BuildingLongName", "BuildingName", "BuildingDescription",
     "SiteLongName", "SiteName", "SiteDescription",
     "ProjectLongName", "ProjectName"}
NoNames == [a \in NameAttributes |-> None]

\* An IfcPostalAddress: its address lines (none is <<>>), town and country
PostalAddress(lines, town, country) ==
    [AddressLines |-> lines, Town |-> town, Country |-> country]

\* name is IfcBuilding.Name. BuildingAddress and SiteAddress are the postal
\* addresses of the first building and site, <<>> for None; storeys holds the
\* Elevation of every IfcBuildingStorey, in millimetres, <<>> for None.
IfcFile(readable, nSites, lat, lon, name) ==
    [readable |-> readable, nSites |-> nSites, RefLatitude |-> lat,
     RefLongitude |-> lon, name |-> name,
     names |-> [NoNames EXCEPT !["BuildingName"] = name],
     BuildingAddress |-> <<>>, SiteAddress |-> <<>>, storeys |-> <<>>]

\* The files the job's s3_key may hold: a valid file, a valid file whose
\* entities have no name, and one file per extraction failure.
SampleFiles ==
    { IfcFile(TRUE, 1, Dms(<<41, 53, 24, 72>>), Scalar(12 * UnitsPerDegree), "Tower X"),
      IfcFile(TRUE, 1, Dms(<<41, 53, 24, 72>>), Scalar(12 * UnitsPerDegree), None),
      IfcFile(TRUE, 0, NoAngle, NoAngle, "Tower X"),
      IfcFile(TRUE, 1, NoAngle, Dms(<<12, 29, 32>>), "Tower X"),
      IfcFile(TRUE, 1, Dms(<<41, 53>>), Dms(<<12, 29, 32>>), "Tower X"),
      IfcFile(TRUE, 1, Dms(<<91, 0, 0>>), Dms(<<12, 29, 32>>), "Tower X"),
      IfcFile(FALSE, 0, NoAngle, NoAngle, "") }

\* What a call of a parser function gives: a value (ok), or no value: None
\* returned (type None) or an exception of the given type raised, with its
\* text err and the values the text quotes.
Ok(x) == [ok |-> TRUE, val |-> x, err |-> "", type |-> None, quoted |-> <<>>]
Err(e) == [ok |-> FALSE, val |-> 0, err |-> e, type |-> None, quoted |-> <<>>]
Raised(type, e, quoted) ==
    [ok |-> FALSE, val |-> 0, err |-> e, type |-> type, quoted |-> quoted]

Abs(x) == IF x < 0 THEN -x ELSE x

\* _convert_to_decimal(value, coord_type)
convert_to_decimal(value, coord_type) ==
    IF value.kind = "scalar" THEN Ok(value.v[1])
    ELSE IF value.kind = "seq" THEN
        IF Len(value.v) < 3
        THEN Raised("IFCParserError", "Invalid " \o coord_type \o " format", <<>>)
        ELSE LET degrees == value.v[1]
                 minutes == IF Len(value.v) > 1 THEN value.v[2] ELSE 0
                 seconds == IF Len(value.v) > 2 THEN value.v[3] ELSE 0
                 milliseconds == IF Len(value.v) > 3 THEN value.v[4] ELSE 0
                 decimal == Abs(degrees) * UnitsPerDegree + minutes * 60000
                            + seconds * 1000 + milliseconds
             IN Ok(IF degrees < 0 THEN -decimal ELSE decimal)
    ELSE IF value.kind = "seq_nonnumeric"
        THEN Raised("TypeError", "TypeError: bad operand type", <<>>)
    ELSE Raised("IFCParserError", "Unsupported " \o coord_type \o " format", <<>>)

\* except Exception as e: raise IFCParserError(f"Unexpected error: {str(e)}")
\* catches the IFCParserError raised inside the try block as well.
Unexpected(r) ==
    IF r.ok THEN r
    ELSE [r EXCEPT !.type = "IFCParserError", !.err = "Unexpected error: " \o @]

\* -limit <= x <= limit, limit in degrees
WithinRange_Exclusive(x, limit) ==
    -limit * UnitsPerDegree < x /\ x < limit * UnitsPerDegree

\* -limit <= x <= limit, limit in degrees
WithinRange(x, limit) ==
    -limit * UnitsPerDegree =< x /\ x =< limit * UnitsPerDegree

\* extract_coordinates_from_ifc(file_path): every failure leaves the function
\* as an IFCParserError; err is its text, quoted the value the text quotes.
extract_coordinates_from_ifc(f) ==
    IF ~f.readable THEN Raised("IFCParserError", "Failed to parse IFC file", <<>>)
    ELSE Unexpected(
        IF f.nSites = 0
        THEN Raised("IFCParserError", "No IfcSite found in IFC file", <<>>)
        ELSE IF f.RefLatitude.kind = "none" \/ f.RefLongitude.kind = "none"
            THEN Raised("IFCParserError",
                        "This IFC file does not contain geographic coordinates", <<>>)
        ELSE LET latitude == convert_to_decimal(f.RefLatitude, "latitude")
                 longitude == convert_to_decimal(f.RefLongitude, "longitude")
             IN IF ~latitude.ok THEN latitude
                ELSE IF ~longitude.ok THEN longitude
                ELSE IF ~WithinRange(latitude.val, 90)
                    THEN Raised("IFCParserError", "Invalid latitude", <<latitude.val>>)
                ELSE IF ~WithinRange(longitude.val, 180)
                    THEN Raised("IFCParserError", "Invalid longitude", <<longitude.val>>)
                ELSE Ok(<<latitude.val, longitude.val>>))

\* Python's truth value of a name attribute
Truthy(x) == x # None /\ x # ""

\* The name taken from the first IfcBuilding, or None
BuildingName(n) ==
    IF Truthy(n.BuildingLongName)
       /\ n.BuildingLongName \notin {"Default", "default", ""}
    THEN n.BuildingLongName
    ELSE IF Truthy(n.BuildingName)
            /\ n.BuildingName \notin {"Default", "default", ""}
        THEN n.BuildingName
    ELSE IF Truthy(n.BuildingDescription) THEN n.BuildingDescription
    ELSE None

\* The name taken from the first IfcSite, or None
SiteName(n) ==
    IF Truthy(n.SiteLongName)
       /\ n.SiteLongName \notin {"Default", "default", "environment - site", ""}
    THEN n.SiteLongName
    ELSE IF Truthy(n.SiteName)
            /\ n.SiteName \notin {"Default", "default", "environment - site",
                                  "Site", ""}
        THEN n.SiteName
    ELSE IF Truthy(n.SiteDescription) THEN n.SiteDescription
    ELSE None

\* The name taken from the first IfcProject, or None
ProjectName(n) ==
    IF Truthy(n.ProjectLongName) THEN n.ProjectLongName
    ELSE IF Truthy(n.ProjectName)
            /\ n.ProjectName \notin {"Default", "default", "Project", ""}
        THEN n.ProjectName
    ELSE None

\* Strings are Python's str: Len, SubSeq and \o are len, slicing and +.
Char(str, i) == SubSeq(str, i, i)

\* os.path.basename(path)
RECURSIVE basename(_)
basename(path) ==
    IF \E i \in 1..Len(path) : Char(path, i) = "/"
    THEN basename(Tail(path))
    ELSE path

\* os.path.splitext(filename)[0]: up to the last dot, unless only dots
\* come before it
splitext_root(filename) ==
    LET dots == {i \in 1..Len(filename) : Char(filename, i) = "."}
        last == CHOOSE i \in dots : \A j \in dots : j =< i
    IN IF dots = {} \/ \A j \in 1..(last - 1) : j \in dots
       THEN filename
       ELSE SubSeq(filename, 1, last - 1)

\* str.replace(old, new) for one character
RECURSIVE replace(_, _, _)
replace(str, old, new) ==
    IF str = "" THEN ""
    ELSE (IF Head(str) = old THEN new ELSE Head(str)) \o replace(Tail(str), old, new)

\* str.lower() of one character
LowerChar(c) ==
    CASE c = "A" -> "a" [] c = "B" -> "b" [] c = "C" -> "c" [] c = "D" -> "d"
      [] c = "E" -> "e" [] c = "F" -> "f" [] c = "G" -> "g" [] c = "H" -> "h"
      [] c = "I" -> "i" [] c = "J" -> "j" [] c = "K" -> "k" [] c = "L" -> "l"
      [] c = "M" -> "m" [] c = "N" -> "n" [] c = "O" -> "o" [] c = "P" -> "p"
      [] c = "Q" -> "q" [] c = "R" -> "r" [] c = "S" -> "s" [] c = "T" -> "t"
      [] c = "U" -> "u" [] c = "V" -> "v" [] c = "W" -> "w" [] c = "X" -> "x"
      [] c = "Y" -> "y" [] c = "Z" -> "z" [] OTHER -> c

\* str.lower()
RECURSIVE lower(_)
lower(str) == IF str = "" THEN "" ELSE LowerChar(Head(str)) \o lower(Tail(str))

\* str.startswith(prefix)
startswith(str, prefix) ==
    Len(str) >= Len(prefix) /\ SubSeq(str, 1, Len(prefix)) = prefix

\* str.strip(): without the blanks at both ends
RECURSIVE strip(_)
strip(str) ==
    IF str = "" THEN ""
    ELSE IF Head(str) = " " THEN strip(Tail(str))
    ELSE IF Char(str, Len(str)) = " " THEN strip(SubSeq(str, 1, Len(str) - 1))
    ELSE str

\* for prefix in ['tmp', 'temp', 'ifc', 'file']
NoisePrefixes == <<"tmp", "temp", "ifc", "file">>

\* The loop over the prefixes from the i-th on: each prefix the name starts
\* with at its turn is cut off, and the rest stripped.
RECURSIVE StripPrefixes(_, _)
StripPrefixes(name, i) ==
    IF i > Len(NoisePrefixes) THEN name
    ELSE StripPrefixes(
            IF startswith(lower(name), NoisePrefixes[i])
            THEN strip(SubSeq(name, Len(NoisePrefixes[i]) + 1, Len(name)))
            ELSE name,
            i + 1)

\* Priority 4: the name made from the file name (lines 178-194)
name_from_file(file_path) ==
    LET cleaned == replace(replace(splitext_root(basename(file_path)), "_", " "),
                           "-", " ")
        stripped == StripPrefixes(cleaned, 1)
    IN IF stripped # "" /\ Len(stripped) > 3 THEN stripped ELSE "Building"

\* The name of the minimal fallback of the exception handler (lines 213-220)
name_from_file_on_error(file_path) ==
    LET cleaned == replace(replace(splitext_root(basename(file_path)), "_", " "),
                           "-", " ")
    IN IF Len(cleaned) > 3 THEN cleaned ELSE "Building"

\* ", ".join(lines)
RECURSIVE Join(_)
Join(lines) ==
    IF Len(lines) = 0 THEN ""
    ELSE IF Len(lines) = 1 THEN lines[1]
    ELSE lines[1] \o ", " \o Join(Tail(lines))

\* [line for line in address.AddressLines if line and line.strip()]
AddrLines(address) ==
    SelectSeq(address.AddressLines, LAMBDA line : line # None /\ strip(line) # "")

\* The address fields after the IfcBuilding block (lines 124-136)
BuildingAddressFields(f) ==
    IF f.BuildingAddress = <<>>
    THEN [address |-> None, city |-> None, country |-> None]
    ELSE LET address == f.BuildingAddress[1] IN
         [address |-> IF AddrLines(address) # <<>>
                      THEN Join(AddrLines(address)) ELSE None,
          city |-> IF Truthy(address.Town) THEN address.Town ELSE None,
          country |-> IF Truthy(address.Country) THEN address.Country ELSE None]

\* The address fields after the IfcSite block (lines 153-165), which is
\* inside "if not metadata['name']" and "if sites"
SiteAddressFields(f, m) ==
    IF ~(m.address = None /\ f.SiteAddress # <<>>) THEN m
    ELSE LET address == f.SiteAddress[1] IN
         [address |-> IF AddrLines(address) # <<>>
                      THEN Join(AddrLines(address)) ELSE m.address,
          city |-> IF m.city = None /\ Truthy(address.Town)
                   THEN address.Town ELSE m.city,
          country |-> IF m.country = None /\ Truthy(address.Country)
                      THEN address.Country ELSE m.country]

\* The elevations that are kept: s.Elevation is not None
KnownElevations(storeys) == SelectSeq(storeys, LAMBDA e : e # <<>>)

\* max(elevations) and min(elevations)
MaxOf(elevations) ==
    CHOOSE x \in {elevations[i][1] : i \in 1..Len(elevations)} :
        \A i \in 1..Len(elevations) : elevations[i][1] =< x
MinOf(elevations) ==
    CHOOSE x \in {elevations[i][1] : i \in 1..Len(elevations)} :
        \A i \in 1..Len(elevations) : x =< elevations[i][1]

\* round(x, 2) of a non-negative length: millimetres to the nearest
\* centimetre (no sample lies half-way)
round2(x) == ((x + 5) \div 10) * 10

\* extract_metadata_from_ifc(file_path) on the file f stored at file_path:
\* never raises. The name is the first of the building's, the site's and the
\* project's name that is there, else the name made from the file name; when
\* the file cannot be opened the exception handler returns its own fallback.
\* height and floorCount are <<>> for None.
extract_metadata_from_ifc(f, file_path) ==
    IF ~f.readable
    THEN [name |-> name_from_file_on_error(file_path),
          address |-> None, city |-> None, country |-> None,
          height |-> <<>>, floorCount |-> <<>>]
    ELSE LET building_name == BuildingName(f.names)
             site_block == ~Truthy(building_name) /\ f.nSites > 0
             site_name == IF site_block THEN SiteName(f.names) ELSE None
             addr == IF site_block
                     THEN SiteAddressFields(f, BuildingAddressFields(f))
                     ELSE BuildingAddressFields(f)
             elevations == KnownElevations(f.storeys)
         IN [name |->
                IF Truthy(building_name) THEN building_name
                ELSE IF Truthy(site_name) THEN site_name
                ELSE IF Truthy(ProjectName(f.names)) THEN ProjectName(f.names)
                ELSE name_from_file(file_path),
             address |-> addr.address,
             city |-> addr.city,
             country |-> addr.country,
             height |-> IF Len(f.storeys) > 0 /\ Len(elevations) > 1
                        THEN <<round2(MaxOf(elevations) - MinOf(elevations))>>
                        ELSE <<>>,
             floorCount |-> IF Len(f.storeys) > 0 THEN <<Len(f.storeys)>> ELSE <<>>]

\* ------------------------------------------------------------------ state

VARIABLES
    file,        \* the IFC file stored under the job's s3_key
    fileRecord,  \* the ifc_files row of file_id
    buildings,   \* the buildings rows, in insertion order
    task,        \* per delivery: the Celery request and the frame of process_ifc_file
    ptask,       \* per delivery: the frame of the processor service's task
    call,        \* the frame of a direct call of a service function
    queue        \* per delivery: the job's message in the task queue

vars == <<file, fileRecord, buildings, task, ptask, call, queue>>

\* Optional values are sequences: <<>> is Python's None, <<x>> is x.
NoExc == [type |-> None, msg |-> None]
Exc(type, msg) == [type |-> type, msg |-> msg]

\* The request and locals of one delivery before its first attempt.
Frame(pc) ==
    [pc |-> pc,
     retries |-> 0,            \* self.request.retries
     runs |-> 0,               \* how often the task body was entered
     eta |-> <<>>,             \* countdown of the retry that is scheduled
     local_file_path |-> FALSE,\* the scratch file of the attempt exists
     coords |-> <<>>,          \* (latitude, longitude)
     metadata |-> <<>>,
     model_url |-> None,
     model_size_mb |-> None,
     model_format |-> None,
     glb |-> "absent",         \* the local artifact file: absent, empty, written
     exc |-> NoExc,            \* the exception being handled or raised
     error_msg |-> <<>>,
     success |-> FALSE,        \* convert_ifc_to_gltf's first result
     failed_in |-> None,       \* the step of the try block that raised
     s3_code |-> None,         \* the storage error code behind an S3Error
     db_raised |-> FALSE,      \* a database call of this attempt raised
     unlink_raised |-> FALSE,  \* os.unlink raised in the last cleanup
     outcome |-> None]         \* how the last attempt ended

\* The locals of one delivery of the processor service's task.
PFrame(pc) ==
    [pc |-> pc,
     local_file_path |-> FALSE, \* the variable is bound
     temp_files |-> 0,          \* scratch files of this delivery on disk
     result |-> <<>>,           \* parse_ifc_file's dictionary
     building_id |-> <<>>,
     exc |-> NoExc,
     db_raised |-> FALSE,
     outcome |-> None]

\* No service function is being called directly.
NoCall == [pc |-> "idle"]

\* The message of one delivery of the job.
Message(state) ==
    [state |-> state,      \* absent, ready, running, lost, ended, acked
     retries |-> 0,        \* the retries header of the message
     acks |-> 0,           \* acknowledgements sent for this delivery's messages
     redelivered |-> FALSE,\* the message was requeued after a lost worker
     outcome |-> None]     \* how the last attempt ended

NoQueue == [d \in Deliveries |-> Message("absent")]

\* processing_status as the upstream API leaves it when it enqueues the job.
InitialStatuses == {"not_started", "processing"}

Init ==
    /\ file \in SampleFiles
    /\ \E st \in InitialStatuses :
          fileRecord = [upload_status |-> "completed", processing_status |-> st,
                        error_message |-> <<>>]
    /\ buildings = <<>>
    /\ task = [d \in Deliveries |-> Frame(IF d = 1 THEN "queued" ELSE "absent")]
    /\ ptask = [d \in Deliveries |-> PFrame("absent")]
    /\ call = NoCall
    /\ queue = NoQueue

\* ------------------------------------------------- database.py (services)

\* What a database call can do: commit, fail to connect (DatabaseError from
\* get_database_connection), or raise psycopg2.Error on execute/fetch/commit
\* (rolled back, DatabaseError).
DbOutcomes == {"ok", "connect_error", "psycopg2_error"}

DatabaseErrorOf(outcome, what) ==
    Exc("DatabaseError",
        IF outcome = "connect_error" THEN "Failed to connect to database" ELSE what)

\* mark_processing_failed: the committed UPDATE ifc_files SET
\* processing_status = 'failed', error_message = %s
mark_processing_failed(rec, error_message) ==
    [rec EXCEPT !.processing_status = "failed", !.error_message = error_message]

\* update_processing_result, statement 1: UPDATE ifc_files SET
\* processing_status = 'completed' (error_message is not touched)
MarkCompleted(rec) == [rec EXCEPT !.processing_status = "completed"]

\* update_processing_result, statement 2: INSERT INTO buildings
InsertBuilding(rows, latitude, longitude, metadata) ==
    Append(rows, [ifc_file_id |-> "file_id", name |-> metadata.name,
                  longitude |-> longitude, latitude |-> latitude])

\* def update_processing_result(file_id, latitude, longitude, metadata)
UpdateProcessingResultParams == {"file_id", "latitude", "longitude", "metadata"}

\* The worker's call: four positional arguments and three keyword arguments.
WorkerKeywordArgs == {"model_url", "model_size_mb", "model_format"}

\* Mutant: a signature that takes any keyword argument (**kwargs).
BindsArguments_AnyKeyword(params, keywords) == TRUE

\* Python's argument binding: a keyword that names no parameter is a TypeError.
BindsArguments(params, keywords) == keywords \subseteq params

\* ------------------------------------------------------- Celery Task.retry

\* Mutant: the retry limit compared with request.retries, off by one.
MaxRetriesExceeded_OffByOne(request_retries) == request_retries > MaxRetries

\* Task.retry: retries = request.retries + 1; when max_retries is set and
\* retries > max_retries the original exception is raised instead of Retry.
MaxRetriesExceeded(request_retries) == request_retries + 1 > MaxRetries

\* Task.retry: the countdown given, else default_retry_delay.
RetryDelay(countdown) == IF countdown = <<>> THEN DefaultRetryDelay ELSE countdown[1]

\* ----------------------------------------------- s3_service, gltf_converter

\* What s3_client.download_file can do, and the text of the S3Error that
\* download_file_from_s3 raises for it.
S3Outcomes == {"ok", "NoSuchKey", "AccessDenied", "OtherClientError", "Exception"}

download_error(code) ==
    CASE code = "NoSuchKey" -> "File not found in S3"
      [] code = "AccessDenied" -> "Access denied to S3 file"
      [] code = "OtherClientError" -> "Failed to download from S3"
      [] OTHER -> "Unexpected error"

\* The job's s3_key
S3Key == "uploads/tmp_central-plaza_v2.ifc"

\* Names tempfile.NamedTemporaryFile(suffix='.ifc', delete=False) can give
\* the scratch file: "tmp", eight random characters of a-z, 0-9 and _, and
\* the suffix.
ScratchPaths == {"/tmp/tmpk3x9q2ab.ifc", "/tmp/tmpifc_07_x.ifc"}

\* What the IfcConvert run can do (subprocess.run in _use_ifcconvert).
ToolOutcomes == {"exit0_output", "exit0_no_output", "nonzero_exit", "timeout",
                 "not_installed", "unexpected_error"}

\* The output file after the run: convert_ifc_to_gltf has created it empty
\* (NamedTemporaryFile(delete=False)) before the tool starts.
GlbAfter(tool) == IF tool = "exit0_output" THEN "written" ELSE "empty"

\* _use_ifcconvert: True iff returncode == 0 and os.path.exists(output_path)
use_ifcconvert(tool) ==
    /\ tool \in {"exit0_output", "exit0_no_output"}
    /\ GlbAfter(tool) # "absent"

\* convert_ifc_to_gltf(ifc_file_path): (success, output_path, error), and glb,
\* the state of the output file when it returns. opened: the input exists
\* and ifcopenshell.open read it, so that the output file is created and the
\* tool is run; otherwise the exception or the early return comes first.
convert_ifc_to_gltf(opened, tool) ==
    IF ~opened
    THEN [success |-> FALSE, gltf_path |-> None, error |-> "str(e)", glb |-> "absent"]
    ELSE IF use_ifcconvert(tool)
    THEN [success |-> TRUE, gltf_path |-> "output_path", error |-> None,
          glb |-> GlbAfter(tool)]
    ELSE [success |-> FALSE, gltf_path |-> None, error |-> "IfcConvert failed",
          glb |-> GlbAfter(tool)]

\* get_model_metadata(gltf_path).get('file_size_mb'): None when getsize raised
ModelSizeMb(metadata_ok, glb) ==
    IF ~metadata_ok THEN None ELSE IF glb = "written" THEN "size" ELSE "0.0"

\* ------------------------------------- workers/ifc_processing.py: the task

\* Mutant: no "except IFCParserError" clause, "except Exception" catches it.
HandlerFor_NoParserClause(type) ==
    CASE type = "S3Error" -> "except_S3Error"
      [] type = "DatabaseError" -> "except_DatabaseError"
      [] OTHER -> "except_Exception"

\* The except clause of process_ifc_file that catches an exception type.
HandlerFor(type) ==
    CASE type = "S3Error" -> "except_S3Error"
      [] type = "IFCParserError" -> "except_IFCParserError"
      [] type = "DatabaseError" -> "except_DatabaseError"
      [] OTHER -> "except_Exception"

\* The queue hands a delivery to a worker; the body starts (lines 59-68):
\* fresh locals, and the scratch file is created.
Receive(d) ==
    /\ task[d].pc = "queued"
    /\ task' = [task EXCEPT ![d] =
          [Frame("download") EXCEPT !.retries = task[d].retries,
                                    !.runs = task[d].runs + 1,
                                    !.local_file_path = TRUE]]
    /\ UNCHANGED <<file, fileRecord, buildings, ptask, call, queue>>

\* Step 1: download_file_from_s3(s3_key, local_file_path)
Download(d) ==
    /\ task[d].pc = "download"
    /\ \E code \in S3Outcomes :
          task' = [task EXCEPT ![d] =
              IF code = "ok" THEN [@ EXCEPT !.pc = "extract_coordinates"]
              ELSE [@ EXCEPT !.exc = Exc("S3Error", download_error(code)),
                             !.failed_in = "download",
                             !.s3_code = code,
                             !.pc = HandlerFor("S3Error")]]
    /\ UNCHANGED <<file, fileRecord, buildings, ptask, call, queue>>

\* Step 2: latitude, longitude = extract_coordinates_from_ifc(local_file_path)
ExtractCoordinates(d) ==
    /\ task[d].pc = "extract_coordinates"
    /\ LET r == extract_coordinates_from_ifc(file) IN
          task' = [task EXCEPT ![d] =
              IF r.ok THEN [@ EXCEPT !.coords = r.val, !.pc = "extract_metadata"]
              ELSE [@ EXCEPT !.exc = Exc("IFCParserError", r.err),
                             !.failed_in = "extract",
                             !.pc = HandlerFor("IFCParserError")]]
    /\ UNCHANGED <<file, fileRecord, buildings, ptask, call, queue>>

\* Step 3: metadata = extract_metadata_from_ifc(local_file_path), where
\* local_file_path is the name NamedTemporaryFile(suffix='.ifc') gave the
\* scratch file of the attempt
ExtractMetadata(d) ==
    /\ task[d].pc = "extract_metadata"
    /\ \E local_file_path \in ScratchPaths :
          task' = [task EXCEPT
                      ![d].metadata = <<extract_metadata_from_ifc(file, local_file_path)>>,
                      ![d].pc = "convert"]
    /\ UNCHANGED <<file, fileRecord, buildings, ptask, call, queue>>

\* Mutant: no inner try/except, a failed upload leaves step 4 as S3Error.
AfterConvert_UploadRaises(t, opened, tool, metadata_ok, upload_ok) ==
    IF opened /\ tool \in {"exit0_output", "exit0_no_output"} /\ ~upload_ok
    THEN [t EXCEPT !.success = TRUE,
                   !.exc = Exc("S3Error", "Failed to upload to S3"),
                   !.failed_in = "convert",
                   !.pc = "except_S3Error"]
    ELSE [t EXCEPT !.success = opened /\ tool \in {"exit0_output", "exit0_no_output"},
                   !.model_url = IF opened /\ tool \in {"exit0_output", "exit0_no_output"}
                                 THEN "/models/file_id.glb" ELSE None,
                   !.pc = "update_database"]

\* The frame after step 4 (lines 88-124) for one behaviour of the converter
\* (opened: convert_ifc_to_gltf got as far as running the tool), of
\* get_model_metadata and of upload_file_to_s3. Every exception is caught
\* by the inner "except Exception".
AfterConvert(t, opened, tool, metadata_ok, upload_ok) ==
    LET success == convert_ifc_to_gltf(opened, tool).success
        glb == convert_ifc_to_gltf(opened, tool).glb
    IN IF ~success THEN [t EXCEPT !.glb = glb, !.pc = "update_database"]
       ELSE [t EXCEPT !.success = TRUE,
                      !.model_size_mb = ModelSizeMb(metadata_ok, glb),
                      !.model_format = "glb",
                      !.model_url = IF upload_ok THEN "/models/file_id.glb" ELSE None,
                      !.glb = IF upload_ok THEN "absent" ELSE glb,
                      !.pc = "update_database"]

\* Step 4: convert IFC to glTF, upload the artifact
Convert(d) ==
    /\ task[d].pc = "convert"
    /\ \E opened \in BOOLEAN, tool \in ToolOutcomes,
          metadata_ok \in BOOLEAN, upload_ok \in BOOLEAN :
          task' = [task EXCEPT ![d] =
                      AfterConvert(@, opened, tool, metadata_ok, upload_ok)]
    /\ UNCHANGED <<file, fileRecord, buildings, ptask, call, queue>>

\* Step 5: update_processing_result(file_id, latitude, longitude, metadata,
\* model_url=..., model_size_mb=..., model_format=...)
UpdateDatabase(d) ==
    /\ task[d].pc = "update_database"
    /\ IF ~BindsArguments(UpdateProcessingResultParams, WorkerKeywordArgs)
       THEN /\ task' = [task EXCEPT
                   ![d].exc = Exc("TypeError", "unexpected keyword argument"),
                   ![d].failed_in = "update_database",
                   ![d].pc = HandlerFor("TypeError")]
            /\ UNCHANGED <<fileRecord, buildings>>
       ELSE \E db \in DbOutcomes :
            IF db = "ok"
            THEN /\ fileRecord' = MarkCompleted(fileRecord)
                 /\ buildings' = InsertBuilding(buildings, task[d].coords[1],
                                     task[d].coords[2], task[d].metadata[1])
                 /\ task' = [task EXCEPT ![d].outcome = "completed",
                                         ![d].pc = "finally"]
            ELSE /\ task' = [task EXCEPT
                        ![d].exc = DatabaseErrorOf(db, "Failed to update database"),
                        ![d].failed_in = "update_database",
                        ![d].db_raised = TRUE,
                        ![d].pc = HandlerFor("DatabaseError")]
                 /\ UNCHANGED <<fileRecord, buildings>>
    /\ UNCHANGED <<file, ptask, call, queue>>

\* error_msg = f"<prefix>: {str(e)}"
ErrorMsg(prefix, exc) == <<prefix, exc.msg>>

\* A handler's mark_processing_failed(file_id, error_msg): it commits and the
\* handler goes on at `next`, or it raises DatabaseError out of the handler
\* (no sibling except clause catches it) and the task ends with it.
MarkFailedThen(d, prefix, next, outcome) ==
    LET error_msg == ErrorMsg(prefix, task[d].exc) IN
    \E db \in DbOutcomes :
        IF db = "ok"
        THEN /\ fileRecord' = mark_processing_failed(fileRecord, error_msg)
             /\ task' = [task EXCEPT ![d].error_msg = error_msg,
                                     ![d].outcome = outcome,
                                     ![d].pc = next]
        ELSE /\ task' = [task EXCEPT
                    ![d].error_msg = error_msg,
                    ![d].exc = DatabaseErrorOf(db, "Failed to mark as failed"),
                    ![d].db_raised = TRUE,
                    ![d].outcome = "raised",
                    ![d].pc = "finally"]
             /\ UNCHANGED fileRecord

\* The except clauses of process_ifc_file (lines 154-187):
\*   S3Error         mark failed, then retry
\*   IFCParserError  mark failed, return {'status': 'failed', ...}
\*   DatabaseError   retry (nothing is written)
\*   Exception       mark failed, then retry
Except(d) ==
    /\ task[d].pc \in {"except_S3Error", "except_IFCParserError",
                       "except_DatabaseError", "except_Exception"}
    /\ CASE task[d].pc = "except_S3Error" ->
              MarkFailedThen(d, "S3 download error", "retry", None)
         [] task[d].pc = "except_IFCParserError" ->
              MarkFailedThen(d, "IFC parsing error", "finally", "returned_failed")
         [] task[d].pc = "except_DatabaseError" ->
              /\ task' = [task EXCEPT
                     ![d].error_msg = ErrorMsg("Database error", task[d].exc),
                     ![d].pc = "retry"]
              /\ UNCHANGED fileRecord
         [] OTHER ->
              MarkFailedThen(d, "Unexpected error", "retry", None)
    /\ UNCHANGED <<file, buildings, ptask, call, queue>>

\* raise self.retry(exc=e, countdown=60)
Retry(d) ==
    /\ task[d].pc = "retry"
    /\ task' = [task EXCEPT ![d] =
          IF MaxRetriesExceeded(task[d].retries)
          THEN [@ EXCEPT !.outcome = "raised", !.pc = "finally"]
          ELSE [@ EXCEPT !.eta = <<RetryDelay(<<RetryCountdown>>)>>,
                         !.outcome = "retry", !.pc = "finally"]]
    /\ UNCHANGED <<file, fileRecord, buildings, ptask, call, queue>>

\* Mutant: the scratch file is removed on the success path only.
CleanupScratch_OnlyOnSuccess(t, unlink_ok) ==
    t.local_file_path /\ ~(unlink_ok /\ t.outcome = "completed")

\* finally: if local_file_path and os.path.exists(local_file_path), try
\* os.unlink; an exception of os.unlink is logged and swallowed. The result
\* is whether the scratch file still exists afterwards.
CleanupScratch(t, unlink_ok) == t.local_file_path /\ ~unlink_ok

\* finally: the cleanup; then the attempt is over and its locals are gone:
\* the retry is queued with retries + 1, or the task has ended. In the frame
\* that is left local_file_path tells whether the scratch file of the
\* attempt that just ended is still on disk.
Finally(d) ==
    /\ task[d].pc = "finally"
    /\ \E unlink_ok \in BOOLEAN :
          task' = [task EXCEPT ![d] =
              [Frame(IF task[d].outcome = "retry" THEN "queued" ELSE "done")
                  EXCEPT !.retries = IF task[d].outcome = "retry"
                                     THEN task[d].retries + 1 ELSE task[d].retries,
                         !.runs = task[d].runs,
                         !.eta = task[d].eta,
                         !.local_file_path = CleanupScratch(task[d], unlink_ok),
                         !.unlink_raised = task[d].local_file_path /\ ~unlink_ok,
                         !.outcome = task[d].outcome]]
    /\ UNCHANGED <<file, fileRecord, buildings, ptask, call, queue>>

\* The job is enqueued again for the same file (a re-run or a redelivery).
Resubmit(d) ==
    /\ d > 1
    /\ task[d].pc = "absent"
    /\ task[d - 1].pc # "absent"
    /\ task' = [task EXCEPT ![d].pc = "queued"]
    /\ UNCHANGED <<file, fileRecord, buildings, ptask, call, queue>>

Next ==
    \E d \in Deliveries :
        \/ Receive(d)
        \/ Download(d)
        \/ ExtractCoordinates(d)
        \/ ExtractMetadata(d)
        \/ Convert(d)
        \/ UpdateDatabase(d)
        \/ Except(d)
        \/ Retry(d)
        \/ Finally(d)
        \/ Resubmit(d)

Spec == Init /\ [][Next]_vars

\* The delivery that is in the queue from the start.
FirstDelivery == CHOOSE d \in Deliveries : \A e \in Deliveries : d <= e

\* One delivered job on a running worker: the worker executes the message it
\* received step by step, and the broker delivers a scheduled retry
\* (autoretry is off, max_retries = 3, acks_late) once its countdown is over.
NextJob ==
    \E d \in {FirstDelivery} :
        \/ Receive(d)
        \/ Download(d)
        \/ ExtractCoordinates(d)
        \/ ExtractMetadata(d)
        \/ Convert(d)
        \/ UpdateDatabase(d)
        \/ Except(d)
        \/ Retry(d)
        \/ Finally(d)

\* The steps of the job other than step 3.
JobStepsButMetadata(d) ==
    \/ Receive(d)
    \/ Download(d)
    \/ ExtractCoordinates(d)
    \/ Convert(d)
    \/ UpdateDatabase(d)
    \/ Except(d)
    \/ Retry(d)
    \/ Finally(d)

\* The worker keeps running and the broker keeps delivering: a step of the
\* job that stays possible is eventually taken. Step 3 is possible exactly
\* when the attempt stands before it, so its weak fairness
\* WF_vars(ExtractMetadata(d)) is written out with that state predicate in
\* the place of ENABLED.
SpecJob ==
    /\ Init
    /\ [][NextJob]_vars
    /\ WF_vars(JobStepsButMetadata(FirstDelivery))
    /\ (<>[](task[FirstDelivery].pc = "extract_metadata")
           => []<><<ExtractMetadata(FirstDelivery)>>_vars)

\* --------------------------------------- processor/app/services/ifc_parser

\* A decimal-degree value of the processor's parser: its sign, its magnitude
\* in model units and the rest in thousandths of a unit (1/3,600,000,000
\* degree, the unit of the fourth component there).
Decimal(neg, ms, us) == [neg |-> neg, ms |-> ms, us |-> us]

\* IFCCoordinateExtractor._to_decimal_degrees: None (here ~ok) instead of a
\* value when the angle is None, too short or not numeric.
to_decimal_degrees(compound_angle) ==
    IF compound_angle.kind = "none" THEN Err("None")
    ELSE IF compound_angle.kind \in {"seq", "seq_nonnumeric"} THEN
        IF compound_angle.kind = "seq_nonnumeric" THEN Err("ValueError")
        ELSE IF Len(compound_angle.v) >= 3 THEN
            LET degrees == compound_angle.v[1]
                minutes == compound_angle.v[2]
                seconds == compound_angle.v[3]
                microseconds == IF Len(compound_angle.v) > 3
                                THEN compound_angle.v[4] ELSE 0
                base == Abs(degrees) * UnitsPerDegree + minutes * 60000
                        + seconds * 1000
            IN Ok(Decimal(degrees < 0, base + (microseconds \div 1000),
                          microseconds % 1000))
        ELSE Err("Unexpected compound angle format")
    ELSE IF compound_angle.kind = "scalar"
        THEN Ok(Decimal(compound_angle.v[1] < 0, Abs(compound_angle.v[1]), 0))
    ELSE Err("ValueError")

\* Python's truth value of an angle attribute ("not ref_latitude")
Falsy(angle) ==
    \/ angle.kind = "none"
    \/ angle.kind = "scalar" /\ angle.v[1] = 0
    \/ angle.kind = "seq" /\ Len(angle.v) = 0

\* IFCCoordinateExtractor.extract_site_coordinates: None (here ~ok) when
\* there is no site, an attribute is falsy or a conversion failed.
extract_site_coordinates(f) ==
    IF f.nSites = 0 THEN Err("No IfcSite found in IFC file")
    ELSE IF Falsy(f.RefLatitude) \/ Falsy(f.RefLongitude)
        THEN Err("IfcSite missing RefLatitude or RefLongitude")
    ELSE LET latitude_dd == to_decimal_degrees(f.RefLatitude)
             longitude_dd == to_decimal_degrees(f.RefLongitude)
         IN IF ~latitude_dd.ok \/ ~longitude_dd.ok
            THEN Err("Failed to convert coordinates to decimal degrees")
            ELSE Ok(<<latitude_dd.val, longitude_dd.val>>)

\* no validation
WithinDegrees_Unchecked(x, limit) == TRUE

\* -limit <= x <= limit, limit in degrees
WithinDegrees(x, limit) ==
    \/ x.ms < limit * UnitsPerDegree
    \/ x.ms = limit * UnitsPerDegree /\ x.us = 0

\* The elevations that are kept: storey.Elevation is truthy
TruthyElevations(storeys) == SelectSeq(storeys, LAMBDA e : e # <<>> /\ e[1] # 0)

\* IFCCoordinateExtractor.extract_building_metadata, on an opened file
extract_building_metadata(f) ==
    LET elevations == TruthyElevations(f.storeys) IN
    [name |-> f.name,
     address |-> IF f.BuildingAddress # <<>> /\ f.BuildingAddress[1].AddressLines # <<>>
                 THEN Join(f.BuildingAddress[1].AddressLines) ELSE None,
     city |-> IF f.BuildingAddress # <<>> THEN f.BuildingAddress[1].Town ELSE None,
     country |-> IF f.BuildingAddress # <<>> THEN f.BuildingAddress[1].Country ELSE None,
     height |-> IF Len(f.storeys) > 0 /\ Len(elevations) > 0
                THEN <<MaxOf(elevations) - MinOf(elevations)>> ELSE <<>>,
     floor_count |-> <<Len(f.storeys)>>]

\* parse_ifc_file(file_path): the dictionary, or ValueError
parse_ifc_file(f) ==
    IF ~f.readable THEN Raised("ValueError", "Invalid IFC file", <<>>)
    ELSE LET coordinates == extract_site_coordinates(f) IN
         IF ~coordinates.ok
         THEN Raised("ValueError", "No coordinates found in IFC file", <<>>)
         ELSE IF ~WithinDegrees(coordinates.val[1], 90)
             THEN Raised("ValueError", "Invalid latitude", <<coordinates.val[1]>>)
         ELSE IF ~WithinDegrees(coordinates.val[2], 180)
             THEN Raised("ValueError", "Invalid longitude", <<coordinates.val[2]>>)
         ELSE Ok([latitude |-> coordinates.val[1],
                  longitude |-> coordinates.val[2],
                  metadata |-> extract_building_metadata(f)])

\* ------------------------------------ processor/app/tasks/process_ifc.py

\* update_file_status: the committed UPDATE ifc_files SET upload_status,
\* processing_status (error_message is only logged, not stored)
update_file_status(rec, upload_status, processing_status, error_message) ==
    [rec EXCEPT !.upload_status = upload_status,
                !.processing_status = processing_status]

\* update_database: the committed INSERT INTO buildings
update_database(rows, latitude, longitude, metadata) ==
    Append(rows, [ifc_file_id |-> "file_id", name |-> metadata.name,
                  longitude |-> longitude, latitude |-> latitude])

\* POST /process: process_ifc_file.delay(file_id, s3_key)
PSubmit(d) ==
    /\ d > 1
    /\ ptask[d].pc = "absent"
    /\ ptask[d - 1].pc # "absent"
    /\ ptask' = [ptask EXCEPT ![d].pc = "queued"]
    /\ UNCHANGED <<file, fileRecord, buildings, task, call, queue>>

\* A database call of the processor's task raised: psycopg2's error leaves
\* the function (the connection is closed, nothing is committed).
PRaise(d, inHandler) ==
    [ptask EXCEPT ![d].exc = Exc("psycopg2.Error", "database error"),
                  ![d].db_raised = TRUE,
                  ![d].outcome = IF inHandler THEN "raised" ELSE @,
                  ![d].pc = IF inHandler THEN "done" ELSE "except"]

\* line 55, before the try block: update_file_status(file_id, "processing",
\* "processing"); an exception here ends the task
PSetProcessing(d) ==
    /\ ptask[d].pc = "queued"
    /\ \E db \in DbOutcomes :
          IF db = "ok"
          THEN /\ fileRecord' = update_file_status(fileRecord, "processing",
                                                   "processing", <<>>)
               /\ ptask' = [ptask EXCEPT ![d].pc = "download"]
          ELSE /\ ptask' = PRaise(d, TRUE)
               /\ UNCHANGED fileRecord
    /\ UNCHANGED <<file, buildings, task, call, queue>>

\* Step 1: local_file_path = download_from_s3(s3_key); the scratch file is
\* created before the download, the variable is bound after it
PDownload(d) ==
    /\ ptask[d].pc = "download"
    /\ \E code \in S3Outcomes :
          ptask' = [ptask EXCEPT ![d] =
              IF code = "ok"
              THEN [@ EXCEPT !.temp_files = 1, !.local_file_path = TRUE,
                             !.pc = "parse"]
              ELSE [@ EXCEPT !.temp_files = 1,
                             !.exc = Exc("ClientError", code),
                             !.pc = "except"]]
    /\ UNCHANGED <<file, fileRecord, buildings, task, call, queue>>

\* Step 2: result = parse_ifc_file(local_file_path)
PParse(d) ==
    /\ ptask[d].pc = "parse"
    /\ LET r == parse_ifc_file(file) IN
          ptask' = [ptask EXCEPT ![d] =
              IF r.ok THEN [@ EXCEPT !.result = <<r.val>>, !.pc = "update_database"]
              ELSE [@ EXCEPT !.exc = Exc("ValueError", r.err), !.pc = "except"]]
    /\ UNCHANGED <<file, fileRecord, buildings, task, call, queue>>

\* Step 3: building_id = update_database(file_id, latitude, longitude, metadata)
PUpdateDatabase(d) ==
    /\ ptask[d].pc = "update_database"
    /\ \E db \in DbOutcomes :
          IF db = "ok"
          THEN /\ buildings' = update_database(buildings,
                                   ptask[d].result[1].latitude,
                                   ptask[d].result[1].longitude,
                                   ptask[d].result[1].metadata)
               /\ ptask' = [ptask EXCEPT ![d].building_id = <<Len(buildings) + 1>>,
                                         ![d].pc = "set_completed"]
          ELSE /\ ptask' = PRaise(d, FALSE)
               /\ UNCHANGED buildings
    /\ UNCHANGED <<file, fileRecord, task, call, queue>>

\* Steps 4 and 5: update_file_status(file_id, "completed", "completed"),
\* os.unlink(local_file_path), return
PSetCompleted(d) ==
    /\ ptask[d].pc = "set_completed"
    /\ \E db \in DbOutcomes :
          IF db = "ok"
          THEN /\ fileRecord' = update_file_status(fileRecord, "completed",
                                                   "completed", <<>>)
               /\ ptask' = [ptask EXCEPT ![d].temp_files = 0,
                                         ![d].outcome = "success",
                                         ![d].pc = "done"]
          ELSE /\ ptask' = PRaise(d, FALSE)
               /\ UNCHANGED fileRecord
    /\ UNCHANGED <<file, buildings, task, call, queue>>

\* except Exception: update_file_status(file_id, "completed", "failed",
\* error_message=str(e)); unlink the scratch file if the variable is bound;
\* raise (the task has no retry configured: it ends in FAILURE)
PExcept(d) ==
    /\ ptask[d].pc = "except"
    /\ \E db \in DbOutcomes :
          IF db = "ok"
          THEN /\ fileRecord' = update_file_status(fileRecord, "completed",
                                    "failed", <<ptask[d].exc.msg>>)
               /\ ptask' = [ptask EXCEPT
                      ![d].temp_files = IF ptask[d].local_file_path THEN 0 ELSE @,
                      ![d].outcome = "raised",
                      ![d].pc = "done"]
          ELSE /\ ptask' = PRaise(d, TRUE)
               /\ UNCHANGED fileRecord
    /\ UNCHANGED <<file, buildings, task, call, queue>>

PInit ==
    /\ file \in SampleFiles
    /\ \E st \in InitialStatuses :
          fileRecord = [upload_status |-> "completed", processing_status |-> st,
                        error_message |-> <<>>]
    /\ buildings = <<>>
    /\ task = [d \in Deliveries |-> Frame("absent")]
    /\ ptask = [d \in Deliveries |-> PFrame(IF d = 1 THEN "queued" ELSE "absent")]
    /\ call = NoCall
    /\ queue = NoQueue

PNext ==
    \E d \in Deliveries :
        \/ PSubmit(d)
        \/ PSetProcessing(d)
        \/ PDownload(d)
        \/ PParse(d)
        \/ PUpdateDatabase(d)
        \/ PSetCompleted(d)
        \/ PExcept(d)

SpecProcessor == PInit /\ [][PNext]_vars

\* ------------------------- ifc-processor/app/services/database.py, by statement

\* Direct calls of the persister's functions in one run.
MaxCalls == 2

\* The arguments of the calls: the coordinates and metadata of a building,
\* and failure reasons.
CallCoords == {<<41 * UnitsPerDegree, 12 * UnitsPerDegree>>, <<0, 0>>}
CallMetadata == {[name |-> "Tower X"], [name |-> "Building"]}
CallReasons == {<<"IFC parsing error", "No IfcSite found in IFC file">>,
                <<"S3 download error", "File not found in S3">>}

\* The durable state: what committed transactions have written.
Durable == [fileRecord |-> fileRecord, buildings |-> buildings]

\* The frame of a call of update_processing_result or mark_processing_failed.
DbFrame(fn, n) ==
    [pc |-> "connect",
     fn |-> fn,
     n |-> n,                 \* calls made so far, this one included
     coords |-> <<>>,         \* (latitude, longitude)
     metadata |-> <<>>,
     error_message |-> <<>>,
     conn |-> "none",         \* conn: none (None), open, closed
     txn |-> <<>>,            \* the rows as the open transaction sees them
     exc |-> NoExc,           \* the psycopg2.Error being handled
     db_error |-> FALSE,      \* a database error occurred during the call
     rolled_back |-> FALSE,   \* conn.rollback() returned
     raised |-> NoExc,        \* the exception that leaves the function
     before |-> Durable]      \* the durable state when the call started

\* A caller calls update_processing_result(file_id, latitude, longitude,
\* metadata) or mark_processing_failed(file_id, error_message).
DbCall ==
    /\ call.pc \in {"idle", "returned"}
    /\ LET n == IF call.pc = "idle" THEN 1 ELSE call.n + 1 IN
       /\ n =< MaxCalls
       /\ \/ \E c \in CallCoords, m \in CallMetadata :
                call' = [DbFrame("update_processing_result", n)
                            EXCEPT !.coords = c, !.metadata = <<m>>]
          \/ \E e \in CallReasons :
                call' = [DbFrame("mark_processing_failed", n)
                            EXCEPT !.error_message = e]
    /\ UNCHANGED <<file, fileRecord, buildings, task, ptask, queue>>

\* conn = get_database_connection(); cur = conn.cursor(). DatabaseError (no
\* DATABASE_URL, or psycopg2.connect failed) is not a psycopg2.Error: it
\* passes the except clause, conn is still None in the finally block.
DbConnect ==
    /\ call.pc = "connect"
    /\ \E outcome \in {"ok", "no_url", "connect_error", "cursor_error"} :
          call' = CASE outcome = "ok" ->
                         [call EXCEPT !.conn = "open", !.pc = "execute"]
                    [] outcome = "cursor_error" ->
                         [call EXCEPT !.conn = "open", !.db_error = TRUE,
                                      !.exc = Exc("psycopg2.Error", "cursor"),
                                      !.pc = "except"]
                    [] outcome = "connect_error" ->
                         [call EXCEPT !.db_error = TRUE,
                                      !.raised = DatabaseErrorOf("connect_error", ""),
                                      !.pc = "finally"]
                    [] OTHER ->
                         [call EXCEPT !.raised = Exc("DatabaseError",
                                          "DATABASE_URL environment variable not set"),
                                      !.pc = "finally"]
    /\ UNCHANGED <<file, fileRecord, buildings, task, ptask, queue>>

\* The statements of the function inside one transaction: one UPDATE for
\* mark_processing_failed; the UPDATE, then the INSERT ... RETURNING id and
\* fetchone for update_processing_result. What a statement writes is seen by
\* the transaction only. A statement may raise psycopg2.Error.
DbExecute ==
    /\ call.pc \in {"execute", "insert"}
    /\ LET t == IF call.txn = <<>> THEN Durable ELSE call.txn[1]
           after ==
             IF call.fn = "mark_processing_failed"
             THEN [t EXCEPT !.fileRecord = mark_processing_failed(@, call.error_message)]
             ELSE IF call.pc = "execute"
             THEN [t EXCEPT !.fileRecord = MarkCompleted(@)]
             ELSE [t EXCEPT !.buildings = InsertBuilding(@, call.coords[1],
                                              call.coords[2], call.metadata[1])]
           next == IF call.fn = "update_processing_result" /\ call.pc = "execute"
                   THEN "insert" ELSE "commit"
       IN \E ok \in BOOLEAN :
            IF ok
            THEN call' = [call EXCEPT !.txn = <<after>>, !.pc = next]
            ELSE call' = [call EXCEPT !.db_error = TRUE,
                                     !.exc = Exc("psycopg2.Error", call.pc),
                                     !.pc = "except"]
    /\ UNCHANGED <<file, fileRecord, buildings, task, ptask, queue>>

\* conn.commit(): the transaction's rows become durable, or psycopg2.Error
DbCommit ==
    /\ call.pc = "commit"
    /\ \E ok \in BOOLEAN :
          IF ok
          THEN /\ fileRecord' = call.txn[1].fileRecord
               /\ buildings' = call.txn[1].buildings
               /\ call' = [call EXCEPT !.txn = <<>>, !.pc = "finally"]
          ELSE /\ call' = [call EXCEPT !.db_error = TRUE,
                                       !.exc = Exc("psycopg2.Error", "commit"),
                                       !.pc = "except"]
               /\ UNCHANGED <<fileRecord, buildings>>
    /\ UNCHANGED <<file, task, ptask, queue>>

\* except psycopg2.Error as e: if conn: conn.rollback(); raise
\* DatabaseError(...). conn.rollback() is a database call itself: when it
\* raises (the connection was lost), its psycopg2.Error leaves the handler
\* in place of DatabaseError.
DbExcept ==
    /\ call.pc = "except"
    /\ \E rollback_ok \in BOOLEAN :
          call' = IF rollback_ok
                  THEN [call EXCEPT
                          !.txn = <<>>, !.rolled_back = TRUE,
                          !.raised = DatabaseErrorOf("psycopg2_error",
                              IF call.fn = "mark_processing_failed"
                              THEN "Failed to mark as failed"
                              ELSE "Failed to update database"),
                          !.pc = "finally"]
                  ELSE [call EXCEPT
                          !.raised = Exc("psycopg2.Error", "rollback"),
                          !.pc = "finally"]
    /\ UNCHANGED <<file, fileRecord, buildings, task, ptask, queue>>

\* Mutant: no conn.close()
ReleaseConnection_Never(conn) == conn

\* if conn: conn.close()
ReleaseConnection(conn) == IF conn = "open" THEN "closed" ELSE conn

\* finally: if conn: conn.close(); an open transaction is discarded. Then the
\* function returns None or the exception leaves it.
DbFinally ==
    /\ call.pc = "finally"
    /\ call' = [call EXCEPT !.conn = ReleaseConnection(@),
                            !.txn = <<>>,
                            !.pc = "returned"]
    /\ UNCHANGED <<file, fileRecord, buildings, task, ptask, queue>>

DbInit ==
    /\ file = IfcFile(FALSE, 0, NoAngle, NoAngle, "")
    /\ \E st \in InitialStatuses :
          fileRecord = [upload_status |-> "completed", processing_status |-> st,
                        error_message |-> <<>>]
    /\ buildings = <<>>
    /\ task = [d \in Deliveries |-> Frame("absent")]
    /\ ptask = [d \in Deliveries |-> PFrame("absent")]
    /\ call = NoCall
    /\ queue = NoQueue

DbNext ==
    \/ DbCall
    \/ DbConnect
    \/ DbExecute
    \/ DbCommit
    \/ DbExcept
    \/ DbFinally

SpecDatabase == DbInit /\ [][DbNext]_vars

\* ----------------------------------- celeryconfig.py: acknowledgement, loss

\* task_acks_late = True
TaskAcksLate == TRUE
\* task_reject_on_worker_lost = True
TaskRejectOnWorkerLost == TRUE

\* How an attempt of process_ifc_file leaves the worker: it returns
\* ('completed', 'failed'), raises Retry, raises another exception, or is
\* killed at task_time_limit.
AttemptOutcomes == {"completed", "returned_failed", "retry", "raised", "time_limit"}

\* Mutant: the message is acknowledged when the worker receives it.
AcksOnDelivery_Early(acks_late) == 1

\* Acknowledgements sent when the message is handed to the task: one unless
\* task_acks_late.
AcksOnDelivery(acks_late) == IF acks_late THEN 0 ELSE 1

\* The message of an attempt whose worker process was lost: rejected with
\* requeue under task_reject_on_worker_lost, else acknowledged as a failure.
AfterWorkerLost(m, reject_on_worker_lost) ==
    IF reject_on_worker_lost /\ m.acks = m.retries
    THEN [m EXCEPT !.state = "ready", !.redelivered = TRUE]
    ELSE [m EXCEPT !.state = "acked",
                   !.acks = IF m.acks = m.retries THEN @ + 1 ELSE @,
                   !.outcome = "worker_lost"]

\* The job is enqueued again (process_ifc_file.delay / apply_async).
QEnqueue(d) ==
    /\ d > 1
    /\ queue[d].state = "absent"
    /\ queue[d - 1].state # "absent"
    /\ queue' = [queue EXCEPT ![d].state = "ready"]
    /\ UNCHANGED <<file, fileRecord, buildings, task, ptask, call>>

\* A worker takes the message and starts the attempt.
QDeliver(d) ==
    /\ queue[d].state = "ready"
    /\ queue' = [queue EXCEPT ![d].state = "running",
                              ![d].outcome = None,
                              ![d].acks = @ + AcksOnDelivery(TaskAcksLate)]
    /\ UNCHANGED <<file, fileRecord, buildings, task, ptask, call>>

\* The attempt runs to its end; self.retry raises Retry (a message with
\* retries + 1 has been sent) unless the retries are used up.
QFinish(d) ==
    /\ queue[d].state = "running"
    /\ \E o \in AttemptOutcomes \ {"time_limit"} :
          queue' = [queue EXCEPT
              ![d].state = "ended",
              ![d].outcome = IF o = "retry" /\ MaxRetriesExceeded(queue[d].retries)
                             THEN "raised" ELSE o]
    /\ UNCHANGED <<file, fileRecord, buildings, task, ptask, call>>

\* task_time_limit = 600: the pool kills the process that runs the attempt.
QTimeLimit(d) ==
    /\ queue[d].state = "running"
    /\ queue' = [queue EXCEPT ![d].state = "ended", ![d].outcome = "time_limit"]
    /\ UNCHANGED <<file, fileRecord, buildings, task, ptask, call>>

\* The worker acknowledges the message of the attempt that ended (if it has
\* not done so on delivery); after Retry the message of the retry is in the
\* queue.
QAcknowledge(d) ==
    /\ queue[d].state = "ended"
    /\ LET acks == IF queue[d].acks = queue[d].retries
                   THEN queue[d].acks + 1 ELSE queue[d].acks
       IN queue' = [queue EXCEPT ![d] =
              IF queue[d].outcome = "retry"
              THEN [@ EXCEPT !.state = "ready", !.retries = @ + 1, !.acks = acks]
              ELSE [@ EXCEPT !.state = "acked", !.acks = acks]]
    /\ UNCHANGED <<file, fileRecord, buildings, task, ptask, call>>

\* The worker process is lost while the attempt runs.
QWorkerLost(d) ==
    /\ queue[d].state = "running"
    /\ queue' = [queue EXCEPT ![d].state = "lost"]
    /\ UNCHANGED <<file, fileRecord, buildings, task, ptask, call>>

\* The pool notices the lost process (WorkerLostError).
QRequeue(d) ==
    /\ queue[d].state = "lost"
    /\ queue' = [queue EXCEPT ![d] = AfterWorkerLost(@, TaskRejectOnWorkerLost)]
    /\ UNCHANGED <<file, fileRecord, buildings, task, ptask, call>>

QInit ==
    /\ file = IfcFile(FALSE, 0, NoAngle, NoAngle, "")
    /\ \E st \in InitialStatuses :
          fileRecord = [upload_status |-> "completed", processing_status |-> st,
                        error_message |-> <<>>]
    /\ buildings = <<>>
    /\ task = [d \in Deliveries |-> Frame("absent")]
    /\ ptask = [d \in Deliveries |-> PFrame("absent")]
    /\ call = NoCall
    /\ queue = [d \in Deliveries |-> Message(IF d = 1 THEN "ready" ELSE "absent")]

QNext ==
    \E d \in Deliveries :
        \/ QEnqueue(d)
        \/ QDeliver(d)
        \/ QFinish(d)
        \/ QTimeLimit(d)
        \/ QAcknowledge(d)
        \/ QWorkerLost(d)
        \/ QRequeue(d)

\* The worker pool keeps working: a message that is ready is taken, an
\* attempt that is not interrupted ends, an ended attempt is acknowledged, a
\* lost process is noticed. Nothing obliges the environment to enqueue
\* again, to lose a worker or to let an attempt run into the time limit.
SpecQueue ==
    /\ QInit
    /\ [][QNext]_vars
    /\ \A d \in Deliveries :
          /\ WF_vars(QDeliver(d))
          /\ WF_vars(QFinish(d))
          /\ WF_vars(QAcknowledge(d))
          /\ WF_vars(QRequeue(d))

\* --------------------------------------------- the parsers, called directly

\* The degrees of the sample angles: the limits of both axes, their
\* neighbours, zero and the degrees of Rome.
DegreeSamples == {-181, -180, -91, -90, -1, 0, 1, 12, 41, 90, 91, 180, 181}
\* (minutes, seconds) of the sample angles
MinuteSecondSamples == {<<0, 0>>, <<53, 24>>, <<29, 32>>, <<59, 59>>}
\* The fourth component of the sample angles
FractionSamples == {0, 1, 64000, 72000, 999999}

\* The GeoAngle attributes of the sample sites: sexagesimal tuples with and
\* without a fourth component, numbers, tuples that are too short, a tuple
\* with a non-numeric element, None and a string.
AngleSamples ==
    { Dms(<<d, ms[1], ms[2]>>) : d \in DegreeSamples, ms \in MinuteSecondSamples }
    \cup { Dms(<<d, ms[1], ms[2], f>>) :
              d \in DegreeSamples, ms \in MinuteSecondSamples, f \in FractionSamples }
    \cup { Scalar(d * UnitsPerDegree) : d \in DegreeSamples }
    \cup { Scalar(90 * UnitsPerDegree + 1), Scalar(-180 * UnitsPerDegree - 1),
           Scalar(41 * UnitsPerDegree + 3204072) }
    \cup { Dms(<<>>), Dms(<<41>>), Dms(<<41, 53>>), BadSeq, NoAngle, StrAngle }

\* The angles the sample angles are paired with on the other axis
PairedAngleSamples ==
    { Dms(<<12, 29, 32, 64000>>), Scalar(0), Scalar(-90 * UnitsPerDegree),
      Dms(<<181, 0, 0>>), Dms(<<41, 53>>) }

\* The values of the sample name attributes
NameSamples ==
    { None, "", "Default", "default", "DEFAULT", "Site", "site", "Project",
      "environment - site", "Tower X", "Campus" }

\* The name attributes of the sample files: up to two of them set
NamesSamples ==
    { [n \in NameAttributes |-> IF n = a1 THEN x1 ELSE IF n = a2 THEN x2 ELSE None] :
         a1 \in NameAttributes, a2 \in NameAttributes,
         x1 \in NameSamples, x2 \in NameSamples }

\* The postal addresses of the sample buildings and of the sample sites:
\* none, a full one, one without lines, one with blank lines only, one with
\* a blank line among the lines
BuildingAddressSamples ==
    { <<>>,
      <<PostalAddress(<<"Via del Corso 123">>, "Rome", "Italy")>>,
      <<PostalAddress(<<>>, "Rome", None)>>,
      <<PostalAddress(<<"", "  ">>, None, "Italy")>>,
      <<PostalAddress(<<"Via del Corso 123", "", "Scala B">>, "", None)>> }
SiteAddressSamples ==
    { <<>>,
      <<PostalAddress(<<"Piazza Duomo 1">>, "Milan", "Italia")>>,
      <<PostalAddress(<<>>, "Milan", None)>>,
      <<PostalAddress(<<" ">>, None, "Italia")>>,
      <<PostalAddress(<<"Piazza Duomo 1", "Interno 4">>, None, None)>> }

\* The storeys of the sample files, by their elevations in millimetres
StoreySamples ==
    { <<>>, << <<>> >>, << <<0>> >>, << <<3500>> >>, << <<>>, <<3500>> >>,
      << <<0>>, <<3500>> >>, << <<3500>>, <<7000>> >>, << <<0>>, <<0>> >>,
      << <<0>>, <<3500>>, <<7000>> >>, << <<7000>>, <<>>, <<3500>>, <<0>> >>,
      << <<-3000>>, <<0>>, <<3456>> >>, << <<>>, <<>> >> }

\* The names of the files whose addresses and storeys vary: a building
\* name, a site name only, no name
FewNamesSamples ==
    { [NoNames EXCEPT !.BuildingName = "Tower X"],
      [NoNames EXCEPT !.SiteName = "Campus"],
      NoNames }

\* The paths of the sample files
PathSamples ==
    { "uploads/tmp_central-plaza_v2.ifc", "/tmp/tmpk3x9q2ab.ifc",
      "/tmp/tmpifc_07_x.ifc", "ifc.ifc", "file_ab.ifc", "abc.ifc", "abcd.ifc",
      "Temp-Hall.ifc", "data/tower.v2.ifc", "/srv/in/Casa_Rossa-2.ifc" }

\* The sample files of the parsers: a site with every sample angle on one
\* axis, files with up to two name attributes set, files with and without
\* addresses, files with storeys, a file without a site and one that cannot
\* be opened.
ParserFiles ==
    { [IfcFile(TRUE, 1, NoAngle, NoAngle, n.BuildingName)
          EXCEPT !.names = n, !.BuildingAddress = b, !.SiteAddress = a] :
          n \in FewNamesSamples, b \in BuildingAddressSamples,
          a \in SiteAddressSamples }
    \cup { [IfcFile(TRUE, 1, NoAngle, NoAngle, n.BuildingName)
              EXCEPT !.names = n, !.storeys = st] :
              n \in FewNamesSamples, st \in StoreySamples }
    \cup
    { IfcFile(TRUE, 1, a, b, "Tower X") : a \in AngleSamples, b \in PairedAngleSamples }
    \cup { IfcFile(TRUE, 1, b, a, "Tower X") :
              a \in AngleSamples, b \in PairedAngleSamples }
    \cup { [IfcFile(TRUE, 1, NoAngle, NoAngle, n.BuildingName) EXCEPT !.names = n] :
              n \in NamesSamples }
    \cup { IfcFile(TRUE, 0, NoAngle, NoAngle, "Tower X"),
           IfcFile(FALSE, 0, NoAngle, NoAngle, "") }

\* The frame of a call that has returned or raised: the function, its
\* argument and what the call gave.
Returned(fn, arg, out) == [pc |-> "returned", fn |-> fn, arg |-> arg, out |-> out]

\* The attribute of the site that holds the angle of an axis
AngleOf(f, coord_type) ==
    IF coord_type = "latitude" THEN f.RefLatitude ELSE f.RefLongitude

\* _convert_to_decimal(value, coord_type) on an attribute of the file's site
CallConvertToDecimal ==
    /\ \E coord_type \in {"latitude", "longitude"} :
          call' = Returned("_convert_to_decimal", AngleOf(file, coord_type),
                           convert_to_decimal(AngleOf(file, coord_type), coord_type))
    /\ UNCHANGED <<file, fileRecord, buildings, task, ptask, queue>>

\* extractor._to_decimal_degrees(compound_angle) on an attribute of the site
CallToDecimalDegrees ==
    /\ \E coord_type \in {"latitude", "longitude"} :
          call' = Returned("_to_decimal_degrees", AngleOf(file, coord_type),
                           to_decimal_degrees(AngleOf(file, coord_type)))
    /\ UNCHANGED <<file, fileRecord, buildings, task, ptask, queue>>

\* extract_coordinates_from_ifc(file_path)
CallExtractCoordinatesFromIfc ==
    /\ call' = Returned("extract_coordinates_from_ifc", file,
                        extract_coordinates_from_ifc(file))
    /\ UNCHANGED <<file, fileRecord, buildings, task, ptask, queue>>

\* extract_metadata_from_ifc(file_path), the file stored at file_path
CallExtractMetadataFromIfc ==
    /\ \E file_path \in PathSamples :
          call' = [pc |-> "returned", fn |-> "extract_metadata_from_ifc",
                   arg |-> file, file_path |-> file_path,
                   out |-> extract_metadata_from_ifc(file, file_path)]
    /\ UNCHANGED <<file, fileRecord, buildings, task, ptask, queue>>

\* extractor.extract_building_metadata() after extractor.open_file(file_path)
CallExtractBuildingMetadata ==
    /\ file.readable
    /\ call' = Returned("extract_building_metadata", file,
                        extract_building_metadata(file))
    /\ UNCHANGED <<file, fileRecord, buildings, task, ptask, queue>>

\* gltf_converter.convert_ifc_to_gltf(file_path): a file ifcopenshell cannot
\* open never reaches the tool
CallConvertIfcToGltf ==
    /\ \E opened \in {FALSE, file.readable}, tool \in ToolOutcomes :
          call' = [pc |-> "returned", fn |-> "convert_ifc_to_gltf", arg |-> file,
                   opened |-> opened, tool |-> tool,
                   out |-> convert_ifc_to_gltf(opened, tool)]
    /\ UNCHANGED <<file, fileRecord, buildings, task, ptask, queue>>

\* extractor.extract_site_coordinates() after extractor.open_file(file_path)
CallExtractSiteCoordinates ==
    /\ file.readable
    /\ call' = Returned("extract_site_coordinates", file,
                        extract_site_coordinates(file))
    /\ UNCHANGED <<file, fileRecord, buildings, task, ptask, queue>>

\* parse_ifc_file(file_path)
CallParseIfcFile ==
    /\ call' = Returned("parse_ifc_file", file, parse_ifc_file(file))
    /\ UNCHANGED <<file, fileRecord, buildings, task, ptask, queue>>

ParserInit ==
    /\ file \in ParserFiles
    /\ fileRecord = [upload_status |-> "completed", processing_status |-> "not_started",
                     error_message |-> <<>>]
    /\ buildings = <<>>
    /\ task = [d \in Deliveries |-> Frame("absent")]
    /\ ptask = [d \in Deliveries |-> PFrame("absent")]
    /\ call = NoCall
    /\ queue = NoQueue

ParserNext ==
    \/ CallConvertToDecimal
    \/ CallToDecimalDegrees
    \/ CallExtractCoordinatesFromIfc
    \/ CallExtractMetadataFromIfc
    \/ CallExtractBuildingMetadata
    \/ CallConvertIfcToGltf
    \/ CallExtractSiteCoordinates
    \/ CallParseIfcFile

SpecParser == ParserInit /\ [][ParserNext]_vars

\* ------------- processor/app/services/ifc_parser.py: the extractor object

\* The most method calls made on one extractor
MaxMethodCalls == 4

\* IFCCoordinateExtractor(ifc_file_path): self.ifc_file = None. closes counts
\* the calls of close() on the object.
IFCCoordinateExtractor == [ifc_file |-> None, closes |-> 0]

\* What ifcopenshell.open(self.ifc_file_path) can do when open_file calls it:
\* it raises on a file it cannot read, and may raise on any file (the file
\* is gone, I/O error); TRUE is the file object returned.
OpenOutcomes(f) == {FALSE, f.readable}

\* Mutant: open_file() that drops the file object when open raises
open_file_ClearsOnFailure(self, opened) ==
    [self EXCEPT !.ifc_file = IF opened THEN "file" ELSE None]

\* open_file(): self.ifc_file = ifcopenshell.open(...); when open raises,
\* the assignment does not happen and ValueError leaves the method
open_file(self, opened) ==
    IF opened THEN [self EXCEPT !.ifc_file = "file"] ELSE self
open_file_result(opened) ==
    IF opened THEN Ok(None) ELSE Raised("ValueError", "Invalid IFC file", <<>>)

\* extractor.extract_site_coordinates(): lines 48-49, then the extraction
method_extract_site_coordinates(self, f) ==
    IF self.ifc_file = None
    THEN Raised("RuntimeError", "IFC file not opened. Call open_file() first", <<>>)
    ELSE extract_site_coordinates(f)

\* extractor.extract_building_metadata(): lines 133-134, then the extraction
method_extract_building_metadata(self, f) ==
    IF self.ifc_file = None
    THEN Raised("RuntimeError", "IFC file not opened", <<>>)
    ELSE Ok(extract_building_metadata(f))

\* Mutant: close() that keeps the file object
close_KeepsFile(self) == [self EXCEPT !.closes = @ + 1]

\* close(): self.ifc_file = None
close(self) == [self EXCEPT !.ifc_file = None, !.closes = @ + 1]

\* The frame of a call of parse_ifc_file(file_path), line 198:
\* extractor = IFCCoordinateExtractor(file_path)
ParseFrame ==
    [pc |-> "open_file", fn |-> "parse_ifc_file",
     extractor |-> IFCCoordinateExtractor,
     coordinates |-> <<>>,      \* (latitude, longitude)
     pending |-> Ok(None)]      \* the return value or exception on its way out

PfCall ==
    /\ call.pc = "idle"
    /\ call' = ParseFrame
    /\ UNCHANGED <<file, fileRecord, buildings, task, ptask, queue>>

\* try: extractor.open_file()
PfOpenFile ==
    /\ call.pc = "open_file" /\ call.fn = "parse_ifc_file"
    /\ \E opened \in OpenOutcomes(file) :
          call' = [call EXCEPT
                     !.extractor = open_file(@, opened),
                     !.pending = open_file_result(opened),
                     !.pc = IF opened THEN "extract_site_coordinates" ELSE "finally"]
    /\ UNCHANGED <<file, fileRecord, buildings, task, ptask, queue>>

\* coordinates = extractor.extract_site_coordinates(); if not coordinates:
\* raise ValueError("No coordinates found in IFC file ...")
PfExtractSiteCoordinates ==
    /\ call.pc = "extract_site_coordinates" /\ call.fn = "parse_ifc_file"
    /\ LET r == method_extract_site_coordinates(call.extractor, file) IN
          call' = IF r.ok
                  THEN [call EXCEPT !.coordinates = r.val, !.pc = "validate"]
                  ELSE [call EXCEPT
                          !.pending = IF r.type = "RuntimeError" THEN r
                                      ELSE Raised("ValueError",
                                               "No coordinates found in IFC file", <<>>),
                          !.pc = "finally"]
    /\ UNCHANGED <<file, fileRecord, buildings, task, ptask, queue>>

\* Validate coordinate ranges (lines 210-214)
PfValidate ==
    /\ call.pc = "validate" /\ call.fn = "parse_ifc_file"
    /\ LET latitude == call.coordinates[1]
           longitude == call.coordinates[2]
       IN call' =
            IF ~WithinDegrees(latitude, 90)
            THEN [call EXCEPT !.pending = Raised("ValueError", "Invalid latitude",
                                                 <<latitude>>),
                              !.pc = "finally"]
            ELSE IF ~WithinDegrees(longitude, 180)
            THEN [call EXCEPT !.pending = Raised("ValueError", "Invalid longitude",
                                                 <<longitude>>),
                              !.pc = "finally"]
            ELSE [call EXCEPT !.pc = "extract_building_metadata"]
    /\ UNCHANGED <<file, fileRecord, buildings, task, ptask, queue>>

\* metadata = extractor.extract_building_metadata(); return {...}
PfExtractBuildingMetadata ==
    /\ call.pc = "extract_building_metadata" /\ call.fn = "parse_ifc_file"
    /\ LET r == method_extract_building_metadata(call.extractor, file) IN
          call' = [call EXCEPT
                     !.pending = IF r.ok
                                 THEN Ok([latitude |-> call.coordinates[1],
                                          longitude |-> call.coordinates[2],
                                          metadata |-> r.val])
                                 ELSE r,
                     !.pc = "finally"]
    /\ UNCHANGED <<file, fileRecord, buildings, task, ptask, queue>>

\* finally: extractor.close(); then the value is returned or the exception
\* leaves the function
PfFinally ==
    /\ call.pc = "finally" /\ call.fn = "parse_ifc_file"
    /\ call' = [call EXCEPT !.extractor = close(@), !.pc = "returned"]
    /\ UNCHANGED <<file, fileRecord, buildings, task, ptask, queue>>

\* A client's extractor, as the tests build it: the object, the number of
\* method calls made on it, the last method called and what it gave, the
\* object before that call, the last of the open_file and close calls
\* ("none", "opened", "open_failed" or "closed"), and whether an open_file
\* has succeeded with no close() after it.
ClientFrame ==
    [pc |-> "ready", fn |-> "IFCCoordinateExtractor",
     extractor |-> IFCCoordinateExtractor,
     n |-> 0, out |-> Ok(None), before |-> IFCCoordinateExtractor,
     last |-> "none", opened |-> FALSE]

XConstruct ==
    /\ call.pc = "idle"
    /\ call' = ClientFrame
    /\ UNCHANGED <<file, fileRecord, buildings, task, ptask, queue>>

\* The client's frame after a method call
AfterMethod(fn, extractor, out, last) ==
    [call EXCEPT !.fn = fn, !.extractor = extractor, !.out = out,
                 !.before = call.extractor, !.n = @ + 1, !.last = last,
                 !.opened = IF last = "opened" THEN TRUE
                            ELSE IF last = "closed" THEN FALSE ELSE @]

XOpenFile ==
    /\ call.pc = "ready" /\ call.n < MaxMethodCalls
    /\ \E opened \in OpenOutcomes(file) :
          call' = AfterMethod("open_file", open_file(call.extractor, opened),
                              open_file_result(opened),
                              IF opened THEN "opened" ELSE "open_failed")
    /\ UNCHANGED <<file, fileRecord, buildings, task, ptask, queue>>

XExtractSiteCoordinates ==
    /\ call.pc = "ready" /\ call.n < MaxMethodCalls
    /\ call' = AfterMethod("extract_site_coordinates", call.extractor,
                   method_extract_site_coordinates(call.extractor, file), call.last)
    /\ UNCHANGED <<file, fileRecord, buildings, task, ptask, queue>>

XExtractBuildingMetadata ==
    /\ call.pc = "ready" /\ call.n < MaxMethodCalls
    /\ call' = AfterMethod("extract_building_metadata", call.extractor,
                   method_extract_building_metadata(call.extractor, file), call.last)
    /\ UNCHANGED <<file, fileRecord, buildings, task, ptask, queue>>

XClose ==
    /\ call.pc = "ready" /\ call.n < MaxMethodCalls
    /\ call' = AfterMethod("close", close(call.extractor), Ok(None), "closed")
    /\ UNCHANGED <<file, fileRecord, buildings, task, ptask, queue>>

ExtractorInit ==
    /\ file \in SampleFiles
    /\ fileRecord = [upload_status |-> "completed", processing_status |-> "not_started",
                     error_message |-> <<>>]
    /\ buildings = <<>>
    /\ task = [d \in Deliveries |-> Frame("absent")]
    /\ ptask = [d \in Deliveries |-> PFrame("absent")]
    /\ call = NoCall
    /\ queue = NoQueue

ExtractorNext ==
    \/ PfCall
    \/ PfOpenFile
    \/ PfExtractSiteCoordinates
    \/ PfValidate
    \/ PfExtractBuildingMetadata
    \/ PfFinally
    \/ XConstruct
    \/ XOpenFile
    \/ XExtractSiteCoordinates
    \/ XExtractBuildingMetadata
    \/ XClose

SpecExtractor == ExtractorInit /\ [][ExtractorNext]_vars

\* ================================================================ claims

OnlyDelivery(d) == \A e \in Deliveries \ {d} : task[e].pc = "absent"

\* ------------------------------------------------------------------- C1
\* C1 (as stated): the task body of one delivery is entered at most 3 times.
C1_Original == \A d \in Deliveries : task[d].runs =< 3

\* C1 (amended): the task body of one delivery is entered at most 4 times,
\* the first attempt plus max_retries = 3 retries, request.retries never
\* exceeds 3, and every retry that is scheduled has a countdown of 60 seconds.
C1_AtMostFourAttempts ==
    \A d \in Deliveries :
        /\ task[d].runs =< MaxRetries + 1
        /\ task[d].retries =< MaxRetries
        /\ task[d].runs =< task[d].retries + 1
        /\ task[d].eta \in {<<>>, <<60>>}
        /\ (task[d].pc = "queued" /\ task[d].retries > 0) => task[d].eta = <<60>>

\* A fourth attempt is running, after three retries scheduled with 60 s.
C1_Witness ==
    \E d \in Deliveries :
        task[d].runs = 4 /\ task[d].pc = "download" /\ task[d].retries = 3

\* ------------------------------------------------------------------- C2
\* C2 (as stated): when a delivery has used up its retries (request.retries
\* = max_retries) and its attempt ends with a retryable failure raised, the
\* file record is 'failed' and error_message is this attempt's reason.
C2_Original ==
    \A d \in Deliveries :
        (/\ OnlyDelivery(d)
         /\ task[d].pc = "finally"
         /\ task[d].outcome = "raised"
         /\ task[d].retries = MaxRetries
         /\ task[d].failed_in \in {"download", "update_database"})
        => /\ fileRecord.processing_status = "failed"
           /\ fileRecord.error_message = task[d].error_msg

\* ------------------------------------------------------------------- C3
\* C3 (as stated): an attempt whose download failed with NoSuchKey or
\* AccessDenied ends without a retry being scheduled.
C3_Original ==
    \A d \in Deliveries :
        (/\ task[d].pc = "finally"
         /\ task[d].failed_in = "download"
         /\ task[d].s3_code \in {"NoSuchKey", "AccessDenied"})
        => /\ task[d].outcome # "retry"
           /\ task[d].eta = <<>>
           /\ task[d].retries = 0

\* ------------------------------------------------------------------- C4
\* C4 (as stated): while the retry scheduled after a transient download
\* failure is pending, the file record is 'processing', not 'failed'.
C4_Original ==
    \A d \in Deliveries :
        (/\ OnlyDelivery(d)
         /\ task[d].pc = "finally"
         /\ task[d].outcome = "retry"
         /\ task[d].failed_in = "download"
         /\ task[d].s3_code \in {"OtherClientError", "Exception"})
        => fileRecord.processing_status = "processing"

\* ------------------------------------------------------------------- C5
\* The step of delivery d that handles an extraction failure.
C5_HandlesExtractionFailure(d) ==
    /\ task[d].pc = "except_IFCParserError"
    /\ task'[d] # task[d]

C7_Original ==
    \A d \in Deliveries :
        (/\ OnlyDelivery(d)
         /\ task[d].pc = "finally"
         /\ task[d].coords # <<>>
         /\ ~task[d].db_raised)
        => /\ task[d].outcome = "completed"
           /\ fileRecord.processing_status = "completed"
           /\ Len(buildings) = 1

\* ------------------------------------------------------------------- C8
\* C8 (as stated): an attempt that fails in persistence before the third
\* one is retried without the record being marked 'failed', and the attempt
\* whose persistence meets a working database leaves the record 'completed'
\* with exactly one building.
C8_Original ==
    \A d \in Deliveries :
        (OnlyDelivery(d) /\ task[d].pc = "finally"
         /\ task[d].failed_in \in {None, "update_database"}
         /\ task[d].coords # <<>>)
        => IF task[d].db_raised
           THEN /\ task[d].retries < 2 => task[d].outcome = "retry"
                /\ fileRecord.processing_status # "failed"
                /\ buildings = <<>>
           ELSE /\ fileRecord.processing_status = "completed"
                /\ Len(buildings) = 1

\* ------------------------------------------------------------------- C9
\* C9 (as stated): there is at most one building record for the file.
C9_Original == Len(buildings) =< 1

C11_AttemptEnded(d) == task[d].pc \in {"queued", "done"} /\ task[d].runs > 0

\* C11 (as stated): when an attempt of the worker has ended, whatever its
\* outcome, its scratch file no longer exists.
C11_Original ==
    \A d \in Deliveries : C11_AttemptEnded(d) => ~task[d].local_file_path

\* C11 (amended): every attempt ends through the cleanup, whatever its
\* outcome, and after it the scratch file no longer exists unless os.unlink
\* itself raised (which the cleanup swallows: the outcome is unchanged).
C11_ScratchRemovedUnlessUnlinkFails ==
    /\ [](\A d \in Deliveries :
            /\ C11_AttemptEnded(d) => (task[d].local_file_path <=> task[d].unlink_raised)
            /\ task[d].pc \in {"download", "extract_coordinates", "extract_metadata",
                               "convert", "update_database", "retry", "finally",
                               "except_S3Error", "except_IFCParserError",
                               "except_DatabaseError", "except_Exception"}
               => task[d].local_file_path)
    /\ [][\A d \in Deliveries :
            (~C11_AttemptEnded(d) /\ C11_AttemptEnded(d)')
            => /\ task[d].pc = "finally"
               /\ task'[d].outcome = task[d].outcome]_vars

\* An attempt ended by an exception raised inside a failure handler, and
\* its scratch file is gone.
C11_Witness ==
    \E d \in Deliveries :
        /\ task[d].pc = "done"
        /\ task[d].outcome = "raised"
        /\ task[d].retries < MaxRetries
        /\ ~task[d].local_file_path
        /\ ~task[d].unlink_raised

\* ------------------------------------------------------------------ C12
\* C12 (as stated): a call of update_processing_result during which a
\* database error occurred leaves the durable state exactly as it was before
\* the call, after a rollback, and raises DatabaseError to the caller.
C12_Original ==
    (/\ call.pc = "returned"
     /\ call.fn = "update_processing_result"
     /\ call.db_error)
    => /\ Durable = call.before
       /\ call.conn = "none" \/ call.rolled_back
       /\ call.raised.type = "DatabaseError"

\* ------------------------------------------------------------------ C13
\* C13 (as stated): a file record whose processing_status is 'failed' carries
\* in error_message the reason of the failure that set it.
C13_Original ==
    fileRecord.processing_status = "failed" => fileRecord.error_message # <<>>

\* ------------------------------------------------------------------ C14
\* Acknowledged only after the attempt has ended, and a message whose worker
\* was lost is back in the queue with its retries.
C14_LateAckAndRedelivery ==
    /\ [][\A d \in Deliveries :
            queue'[d].acks > queue[d].acks => queue[d].state = "ended"]_vars
    /\ [][\A d \in Deliveries :
            (queue[d].state = "lost" /\ queue'[d] # queue[d])
            => /\ queue'[d].state = "ready"
               /\ queue'[d].retries = queue[d].retries
               /\ queue'[d].acks = queue[d].acks]_vars

\* C14 (as stated): a message is acknowledged only after its attempt has
\* ended, a worker lost during an attempt puts the message back in the
\* queue, and every message in the queue eventually reaches the end of an
\* attempt.
C14_Original ==
    /\ C14_LateAckAndRedelivery
    /\ \A d \in Deliveries :
          (queue[d].state = "ready") ~> (queue[d].state = "ended")

\* C14 (amended): as stated, but a message in the queue reaches the end of
\* an attempt only if its workers are not lost again and again.
C14_EndsUnlessWorkersKeepDying ==
    /\ C14_LateAckAndRedelivery
    /\ \A d \in Deliveries :
          \/ []<>(queue[d].state = "lost")
          \/ (queue[d].state = "ready") ~> (queue[d].state = "ended")

\* A message was requeued after its worker was lost, its attempt then ran
\* to the end and the message was acknowledged.
C14_Witness ==
    \E d \in Deliveries :
        /\ queue[d].state = "acked"
        /\ queue[d].redelivered
        /\ queue[d].outcome = "returned_failed"
        /\ queue[d].acks = queue[d].retries + 1

\* C15 (as stated): for every sexagesimal tuple (d, m, s[, f]) with m, s, f
\* >= 0 each normalizer, _convert_to_decimal and _to_decimal_degrees, returns
\* sign * (|d| + m/60 + s/3600 + f/3,600,000,000), the sign negative exactly
\* when d < 0: as a magnitude in model units and thousandths of a unit,
\* |d| * 3,600,000 + m * 60,000 + s * 1,000 + f div 1000 and f mod 1000.
C15_Expected(t) ==
    LET f == IF Len(t) > 3 THEN t[4] ELSE 0
    IN Decimal(t[1] < 0,
               Abs(t[1]) * UnitsPerDegree + t[2] * 60000 + t[3] * 1000 + (f \div 1000),
               f % 1000)

C15_ResultOf(c) ==
    IF c.fn = "_convert_to_decimal"
    THEN Decimal(c.out.val < 0, Abs(c.out.val), 0)
    ELSE c.out.val

C15_Original ==
    (/\ call.pc = "returned"
     /\ call.fn \in {"_convert_to_decimal", "_to_decimal_degrees"}
     /\ call.arg.kind = "seq"
     /\ Len(call.arg.v) >= 3)
    => /\ call.out.ok
       /\ C15_ResultOf(call) = C15_Expected(call.arg.v)

\* C16 (as stated): a number is normalized to itself, so a site whose
\* RefLatitude and RefLongitude are numbers within range, 0 included, yields
\* exactly these two values as its coordinate in extract_coordinates_from_ifc
\* and in extract_site_coordinates; it is never reported as without
\* coordinates.
C16_ScalarSite(f) ==
    /\ f.readable
    /\ f.nSites > 0
    /\ f.RefLatitude.kind = "scalar"
    /\ f.RefLongitude.kind = "scalar"
    /\ Abs(f.RefLatitude.v[1]) =< 90 * UnitsPerDegree
    /\ Abs(f.RefLongitude.v[1]) =< 180 * UnitsPerDegree

C16_SameNumber(x, result, fn) ==
    IF fn = "extract_coordinates_from_ifc" THEN result = x
    ELSE result = Decimal(x < 0, Abs(x), 0)

C16_Original ==
    (/\ call.pc = "returned"
     /\ call.fn \in {"extract_coordinates_from_ifc", "extract_site_coordinates"}
     /\ C16_ScalarSite(call.arg))
    => /\ call.out.ok
       /\ C16_SameNumber(call.arg.RefLatitude.v[1], call.out.val[1], call.fn)
       /\ C16_SameNumber(call.arg.RefLongitude.v[1], call.out.val[2], call.fn)

\* C17: validation accepts a normalized pair (latitude, longitude) exactly
\* when -90 <= latitude <= 90 and -180 <= longitude <= 180, the limits
\* included; a pair outside makes extract_coordinates_from_ifc and
\* parse_ifc_file fail with an error that names the first axis out of range
\* and quotes its value, and no coordinate is returned.
C17_Magnitude(x, fn) ==
    IF fn = "extract_coordinates_from_ifc" THEN Decimal(x < 0, Abs(x), 0) ELSE x

C17_Inside(x, limit) ==
    \/ x.ms < limit * UnitsPerDegree
    \/ x.ms = limit * UnitsPerDegree /\ x.us = 0

\* The pair the normalizer hands to the validation of the call, if any
C17_Normalized(c) ==
    IF ~c.arg.readable \/ c.arg.nSites = 0 THEN <<>>
    ELSE IF c.fn = "extract_coordinates_from_ifc"
        THEN IF /\ c.arg.RefLatitude.kind # "none"
                /\ c.arg.RefLongitude.kind # "none"
                /\ convert_to_decimal(c.arg.RefLatitude, "latitude").ok
                /\ convert_to_decimal(c.arg.RefLongitude, "longitude").ok
             THEN <<convert_to_decimal(c.arg.RefLatitude, "latitude").val,
                    convert_to_decimal(c.arg.RefLongitude, "longitude").val>>
             ELSE <<>>
    ELSE IF extract_site_coordinates(c.arg).ok
        THEN extract_site_coordinates(c.arg).val
    ELSE <<>>

C17_Rejects(out, axis, value) ==
    /\ ~out.ok
    /\ out.type \in {"IFCParserError", "ValueError"}
    /\ out.err \in {"Invalid " \o axis, "Unexpected error: Invalid " \o axis}
    /\ out.quoted = <<value>>

C17_RangeValidation ==
    (/\ call.pc = "returned"
     /\ call.fn \in {"extract_coordinates_from_ifc", "parse_ifc_file"}
     /\ C17_Normalized(call) # <<>>)
    => LET latitude == C17_Normalized(call)[1]
           longitude == C17_Normalized(call)[2]
           lat_ok == C17_Inside(C17_Magnitude(latitude, call.fn), 90)
           lon_ok == C17_Inside(C17_Magnitude(longitude, call.fn), 180)
       IN /\ call.out.ok <=> (lat_ok /\ lon_ok)
          /\ call.out.ok /\ call.fn = "extract_coordinates_from_ifc"
                => call.out.val = <<latitude, longitude>>
          /\ call.out.ok /\ call.fn = "parse_ifc_file"
                => /\ call.out.val.latitude = latitude
                   /\ call.out.val.longitude = longitude
          /\ ~lat_ok => C17_Rejects(call.out, "latitude", latitude)
          /\ lat_ok /\ ~lon_ok => C17_Rejects(call.out, "longitude", longitude)

\* extract_coordinates_from_ifc has returned the pair (-90, -180) of a site
\* at both lower limits.
C17_Witness ==
    /\ call.pc = "returned"
    /\ call.fn = "extract_coordinates_from_ifc"
    /\ call.arg.RefLatitude = Scalar(-90 * UnitsPerDegree)
    /\ call.arg.RefLongitude = Scalar(-180 * UnitsPerDegree)
    /\ call.out.ok
    /\ call.out.val = <<-90 * UnitsPerDegree, -180 * UnitsPerDegree>>

\* C18 (as stated): a sequence of fewer than 3 elements, a null value or a
\* value with non-numeric content never becomes a coordinate component:
\* _convert_to_decimal raises an invalid-format IFCParserError,
\* _to_decimal_degrees returns None without raising, and the extraction of
\* a site with such an attribute fails.
C18_Malformed(angle) ==
    \/ angle.kind \in {"none", "seq_nonnumeric", "str"}
    \/ angle.kind = "seq" /\ Len(angle.v) < 3

C18_Original ==
    call.pc = "returned" =>
        /\ call.fn = "_convert_to_decimal" /\ C18_Malformed(call.arg)
              => /\ ~call.out.ok
                 /\ call.out.type = "IFCParserError"
                 /\ call.out.err \in {"Invalid latitude format",
                                       "Invalid longitude format",
                                       "Unsupported latitude format",
                                       "Unsupported longitude format"}
        /\ call.fn = "_to_decimal_degrees" /\ C18_Malformed(call.arg)
              => ~call.out.ok /\ call.out.type = None
        /\ (/\ call.fn \in {"extract_coordinates_from_ifc",
                              "extract_site_coordinates", "parse_ifc_file"}
            /\ \/ C18_Malformed(call.arg.RefLatitude)
               \/ C18_Malformed(call.arg.RefLongitude))
              => ~call.out.ok

\* C19: every coordinate stored in a building record has been validated: in
\* every reachable state each building record's latitude is within [-90, 90]
\* and its longitude within [-180, 180].
C19_Inside(x, limit) ==
    \/ x.ms < limit * UnitsPerDegree
    \/ x.ms = limit * UnitsPerDegree /\ x.us = 0

C19_StoredCoordinatesInRange ==
    \A i \in 1..Len(buildings) :
        /\ C19_Inside(buildings[i].latitude, 90)
        /\ C19_Inside(buildings[i].longitude, 180)

\* The processor task has parsed a file and inserted its building record.
C19_Witness ==
    \E d \in Deliveries :
        /\ ptask[d].pc = "set_completed"
        /\ ptask[d].result # <<>>
        /\ Len(buildings) > 0
        /\ buildings[Len(buildings)].latitude = ptask[d].result[1].latitude
        /\ buildings[Len(buildings)].longitude = ptask[d].result[1].longitude

\* C20 (as stated): extract_metadata_from_ifc returns as name the first
\* candidate, in the order Building LongName, Name, Description, Site
\* LongName, Name, Description, Project LongName, Name, that is not empty
\* and not a placeholder ('', 'Default', 'Site', 'Project', whatever the
\* case of their letters), the filter applied to every candidate; the name
\* made from the file name is returned only when no candidate qualifies.
C20_Order ==
    <<"BuildingLongName", "BuildingName", "BuildingDescription",
      "SiteLongName", "SiteName", "SiteDescription",
      "ProjectLongName", "ProjectName">>

C20_Lower(x) ==
    CASE x \in {"Default", "DEFAULT"} -> "default"
      [] x = "Site" -> "site"
      [] x = "Project" -> "project"
      [] x = "Tower X" -> "tower x"
      [] x = "Campus" -> "campus"
      [] OTHER -> x

C20_Qualifies(x) ==
    x # None /\ C20_Lower(x) \notin {"", "default", "site", "project"}

C20_First(n, file_path) ==
    LET qualifying == {i \in 1..Len(C20_Order) : C20_Qualifies(n[C20_Order[i]])}
    IN IF qualifying = {} THEN name_from_file(file_path)
       ELSE n[C20_Order[CHOOSE i \in qualifying : \A j \in qualifying : i =< j]]

C20_Original ==
    (/\ call.pc = "returned"
     /\ call.fn = "extract_metadata_from_ifc"
     /\ call.arg.readable
     /\ \A a \in NameAttributes : call.arg.names[a] # "environment - site")
    => call.out.name = C20_First(call.arg.names, call.file_path)

\* C21 (as stated): when no entity provides a usable name, the name resolved
\* for a job is derived from the job's storage key: its base file name
\* without extension, '_' and '-' replaced by spaces, a leading noise
\* prefix (tmp, temp, ifc, file) stripped, used as it is if longer than 3
\* characters and otherwise 'Building'.
C21_WithoutPrefix(name) ==
    IF \E i \in 1..Len(NoisePrefixes) : startswith(lower(name), NoisePrefixes[i])
    THEN LET i == CHOOSE j \in 1..Len(NoisePrefixes) :
                      /\ startswith(lower(name), NoisePrefixes[j])
                      /\ \A k \in 1..(j - 1) : ~startswith(lower(name), NoisePrefixes[k])
         IN strip(SubSeq(name, Len(NoisePrefixes[i]) + 1, Len(name)))
    ELSE name

C21_FromKey(key) ==
    LET name == C21_WithoutPrefix(
                    replace(replace(splitext_root(basename(key)), "_", " "), "-", " "))
    IN IF Len(name) > 3 THEN name ELSE "Building"

C21_Original ==
    \A d \in Deliveries :
        (/\ task[d].metadata # <<>>
         /\ file.readable
         /\ file.names = NoNames)
        => task[d].metadata[1].name = C21_FromKey(S3Key)

\* ------------------------------------------------------------------ C22
\* A name that is a non-empty string (None and '' are not)
C22_NonEmpty(name) == name # None /\ name # ""

\* C22 (as stated): the name of the metadata parse_ifc_file returned to the
\* processor's task, and the name of every row inserted into buildings, is a
\* non-empty string.
C22_Original ==
    /\ \A d \in Deliveries :
           ptask[d].result # <<>> => C22_NonEmpty(ptask[d].result[1].metadata.name)
    /\ \A i \in 1..Len(buildings) : C22_NonEmpty(buildings[i].name)

\* ------------------------------------------------------------------ C23
\* The address, city and country of a record
C23_Address(m) == [address |-> m.address, city |-> m.city, country |-> m.country]

\* The address fields the site's postal address gives on its own
C23_FromSite(f) ==
    SiteAddressFields(f, [address |-> None, city |-> None, country |-> None])

\* C23 (as stated): when the building has no postal address and the site has
\* one, the address fields extract_metadata_from_ifc returns are those of the
\* site's postal address, whichever entity supplied the name.
C23_Original ==
    (/\ call.pc = "returned"
     /\ call.fn = "extract_metadata_from_ifc"
     /\ call.arg.readable
     /\ call.arg.nSites > 0
     /\ call.arg.BuildingAddress = <<>>
     /\ call.arg.SiteAddress # <<>>)
    => C23_Address(call.out) = C23_FromSite(call.arg)

\* ------------------------------------------------------------------ C24
\* Every non-null address field of record m is the field of source src
C24_AllFrom(m, src) ==
    \A k \in {"address", "city", "country"} : m[k] # None => m[k] = src[k]

\* C24 (as stated): the non-null address, city and country of a record that
\* extract_metadata_from_ifc returns all come from the building's postal
\* address, or all from the site's.
C24_Original ==
    (/\ call.pc = "returned"
     /\ call.fn = "extract_metadata_from_ifc"
     /\ call.arg.readable)
    => \/ C24_AllFrom(C23_Address(call.out), BuildingAddressFields(call.arg))
       \/ C24_AllFrom(C23_Address(call.out), C23_FromSite(call.arg))

\* ------------------------------------------------------------------ C25
\* The floor count of the record a resolver returned (<<>> is null)
C25_FloorCount ==
    IF call.fn = "extract_metadata_from_ifc" THEN call.out.floorCount
    ELSE call.out.floor_count

\* C25 (as stated): the floor count a resolver returns for a file it could
\* open is the number of the file's storeys, the integer 0 when it has none.
C25_Original ==
    (/\ call.pc = "returned"
     /\ call.fn \in {"extract_metadata_from_ifc", "extract_building_metadata"}
     /\ call.arg.readable)
    => C25_FloorCount = <<Len(call.arg.storeys)>>

\* ------------------------------------------------------------------ C26
\* The resolvers of building metadata
C26_Resolvers == {"extract_metadata_from_ifc", "extract_building_metadata"}

\* Highest minus lowest elevation of the storeys whose elevation is known,
\* an elevation of 0 included
C26_Span(storeys) ==
    MaxOf(KnownElevations(storeys)) - MinOf(KnownElevations(storeys))

\* C26 (as stated): a height that a resolver returns is the highest minus the
\* lowest known storey elevation, 0 counting as known: storeys at 0.0, 3.5
\* and 7.0 give 7.0.
C26_Original ==
    (/\ call.pc = "returned"
     /\ call.fn \in C26_Resolvers
     /\ call.arg.readable
     /\ call.out.height # <<>>)
    => call.out.height = <<C26_Span(call.arg.storeys)>>

\* ------------------------------------------------------------------ C27
\* C27 (as stated): a resolver returns no height (null, not 0) for a file
\* with fewer than two storeys of known elevation, and a height it returns
\* is not negative.
C27_Original ==
    (/\ call.pc = "returned"
     /\ call.fn \in C26_Resolvers
     /\ call.arg.readable)
    => /\ Len(KnownElevations(call.arg.storeys)) < 2 => call.out.height = <<>>
       /\ call.out.height # <<>> => call.out.height[1] >= 0

\* ------------------------------------------------------------------ C28
\* C28 (as stated): extract_metadata_from_ifc on a file it cannot open
\* returns a record, whose name is the filename-derived name of the normal
\* path (noise prefixes stripped) and whose other fields are null.
C28_Original ==
    (/\ call.pc = "returned"
     /\ call.fn = "extract_metadata_from_ifc"
     /\ ~call.arg.readable)
    => call.out = [name |-> name_from_file(call.file_path),
                   address |-> None, city |-> None, country |-> None,
                   height |-> <<>>, floorCount |-> <<>>]

\* ------------------------------------------------------------------ C29
\* The IfcConvert run ended with exit code 0 and left an output file that
\* exists and is not empty
C29_ToolSucceeded ==
    /\ call.opened
    /\ call.tool \in {"exit0_output", "exit0_no_output"}
    /\ call.out.glb = "written"

\* C29 (as stated): convert_ifc_to_gltf reports success if and only if the
\* tool exited with code 0 and its output file exists and is not empty;
\* otherwise it reports no success and returns no artifact path.
C29_Original ==
    (call.pc = "returned" /\ call.fn = "convert_ifc_to_gltf")
    => /\ call.out.success <=> C29_ToolSucceeded
       /\ ~C29_ToolSucceeded => call.out.gltf_path = None

\* ------------------------------------------------------------------ C30
\* C30 (as stated): when the conversion of an attempt succeeded, the local
\* artifact file is gone by the time the attempt reaches step 5, whether the
\* upload succeeded or raised.
C30_Original ==
    \A d \in Deliveries :
        (task[d].pc = "update_database" /\ task[d].success)
        => task[d].glb = "absent"

\* ------------------------------------------------------------------ C31
\* C31: parse_ifc_file closes its extractor exactly once on every exit path:
\* close() has not been called before the finally block, and once the
\* function has returned or raised it has been called once and the extractor
\* holds no file.
C31_ClosedExactlyOnce ==
    (call.pc # "idle" /\ call.fn = "parse_ifc_file")
    => IF call.pc = "returned"
       THEN call.extractor.closes = 1 /\ call.extractor.ifc_file = None
       ELSE call.extractor.closes = 0

\* open_file itself raised, and the extractor was closed
C31_Witness ==
    /\ call.pc = "returned"
    /\ call.fn = "parse_ifc_file"
    /\ call.pending.type = "ValueError"
    /\ call.pending.err = "Invalid IFC file"
    /\ call.extractor.closes = 1

\* ------------------------------------------------------------------ C32
\* The last call on the client's extractor was an extract call
C32_ExtractCalled ==
    /\ call.pc = "ready"
    /\ call.fn \in {"extract_site_coordinates", "extract_building_metadata"}

\* The call raised RuntimeError and left the extractor as it was
C32_Refused == call.out.type = "RuntimeError" /\ call.extractor = call.before

\* C32 (as stated): an extract call made before any open_file, after an
\* open_file that failed with ValueError, or after close raises RuntimeError
\* and leaves the extractor unchanged; an extract call that does not raise
\* RuntimeError comes after a successful open_file with no close since.
C32_Original ==
    C32_ExtractCalled
    => /\ call.last \in {"none", "open_failed", "closed"} => C32_Refused
       /\ call.out.type # "RuntimeError" => call.opened

\* C32 (amended): an extract call raises RuntimeError, leaving the extractor
\* unchanged, exactly when no open_file has succeeded since the extractor
\* was built or last closed; an open_file that fails with ValueError leaves
\* the extractor unchanged, a file opened before it included.
C32_RefusedIffNoFileOpened ==
    /\ C32_ExtractCalled
       => IF call.opened THEN call.out.type # "RuntimeError" ELSE C32_Refused
    /\ (call.pc = "ready" /\ call.fn = "open_file" /\ ~call.out.ok)
       => call.out.type = "ValueError" /\ call.extractor = call.before

\* open_file succeeded, a second open_file failed, and the extract call
\* after it returned the coordinates of the file opened first
C32_Witness ==
    /\ C32_ExtractCalled
    /\ call.last = "open_failed"
    /\ call.opened
    /\ call.fn = "extract_site_coordinates"
    /\ call.out.ok

\* ------------------------------------------------------------------ C33
\* C33: once update_processing_result or mark_processing_failed has returned
\* or raised, the connection the call opened is closed, wherever a database
\* error occurred: the connection is open only while the call is running,
\* and only if get_database_connection returned it.
C33_ConnectionReleased ==
    /\ call.pc = "returned" => call.conn \in {"none", "closed"}
    /\ (call.pc = "returned" /\ call.conn = "none")
       => call.raised.type = "DatabaseError"

\* conn.commit() raised, conn.rollback() raised in the handler, and the
\* connection was closed all the same
C33_Witness ==
    /\ call.pc = "returned"
    /\ call.exc.msg = "commit"
    /\ call.raised = Exc("psycopg2.Error", "rollback")
    /\ call.conn = "closed"

\* ------------------------------------------------------------------ C34
\* C34 (as stated): a file record that was 'completed' when a call of the
\* result persister started is not 'failed' when the call has ended:
\* 'completed' is never overwritten by a failure mark.
C34_Original ==
    (/\ call.pc = "returned"
     /\ call.before.fileRecord.processing_status = "completed")
    => fileRecord.processing_status # "failed"

\* ------------------------------------------------------------------ C35
\* C35 (as stated): a file record whose processing_status is 'completed' has
\* no error_message.
C35_Original ==
    fileRecord.processing_status = "completed" => fileRecord.error_message = <<>>

\* ------------------------------------------------------------------ C36
\* C36 (as stated): an attempt that failed in the download or in the
\* database update (the failures handled by a clause that retries) and whose
\* retries are not used up ends with a retry scheduled, also when
\* mark_processing_failed raised DatabaseError in the handler.
C36_Original ==
    \A d \in Deliveries :
        (/\ task[d].pc = "finally"
         /\ task[d].failed_in \in {"download", "update_database"}
         /\ ~MaxRetriesExceeded(task[d].retries))
        => /\ task[d].outcome = "retry"
           /\ task[d].eta = <<RetryCountdown>>

\* ------------------------------------------------------------------ C37
\* C37 (as stated): when an attempt calls update_processing_result with no
\* model_url, it passes no model_size_mb and no model_format either.
C37_Original ==
    \A d \in Deliveries :
        (task[d].pc = "update_database" /\ task[d].model_url = None)
        => /\ task[d].model_size_mb = None
           /\ task[d].model_format = None

\* C38: every job delivered to the worker eventually reaches a terminal
\* outcome, Completed or Failed, in the file record: it is never left
\* non-terminal with no retry pending.
C38_Original ==
    (task[FirstDelivery].pc = "queued")
        ~> (/\ task[FirstDelivery].pc = "done"
            /\ fileRecord.processing_status \in {"completed", "failed"})

\* C39: in the processor service task, an attempt that ends by marking the
\* file 'failed' has left no building record for that file: whenever the
\* except clause of an attempt writes 'failed', that attempt has inserted no
\* building.
C39_Original ==
    [][\A d \in Deliveries :
          (/\ ptask[d].pc = "except"
           /\ ptask'[d].pc = "done"
           /\ fileRecord.processing_status # "failed"
           /\ fileRecord'.processing_status = "failed")
          => ptask[d].building_id = <<>>]_vars

====
